---- MODULE Spec2Model ----
(***************************************************************************)
(* Model of the Dictionary class of src/dict.js (French Popups): the index *)
(* store, the entry fetcher, the morphological heuristics and the lookup   *)
(* orchestrator.                                                           *)
(*                                                                         *)
(* Strings are sequences of characters; a character is a TLA+ string       *)
(* naming one UTF-16 code unit ("a", "E", "rsquo" for U+2019, ...).        *)
(* JavaScript null is Null for objects, NullStr for string-valued fields   *)
(* and NullCache for the index caches.                                     *)
(***************************************************************************)
EXTENDS Integers, Sequences, FiniteSets, TLC

VARIABLES currentLanguage, indexCache, indexLoaded,
          conjugationIndexCache, conjugationIndexLoaded,
          backupIndexCache, backupIndexLoaded,
          call

dict == <<currentLanguage, indexCache, indexLoaded,
          conjugationIndexCache, conjugationIndexLoaded,
          backupIndexCache, backupIndexLoaded>>

vars == <<currentLanguage, indexCache, indexLoaded,
          conjugationIndexCache, conjugationIndexLoaded,
          backupIndexCache, backupIndexLoaded, call>>

(***************************************************************************)
(* JavaScript values                                                       *)
(***************************************************************************)
Null == [null |-> TRUE]

NullStr == <<"<null>">>

NullCache == <<Null>>

\* truthiness of a string-valued field: '' and null are falsy
Truthy(s) == s # NullStr /\ s # <<>>

(***************************************************************************)
(* Characters and strings                                                  *)
(***************************************************************************)
Lower == <<"a","b","c","d","e","f","g","h","i","j","k","l","m",
           "n","o","p","q","r","s","t","u","v","w","x","y","z">>

Upper == <<"A","B","C","D","E","F","G","H","I","J","K","L","M",
           "N","O","P","Q","R","S","T","U","V","W","X","Y","Z">>

IsLower(c) == \E i \in 1..26 : Lower[i] = c

IsUpper(c) == \E i \in 1..26 : Upper[i] = c

LetterIdx(s, c) == CHOOSE i \in 1..26 : s[i] = c

\* UTF-16 code unit of a character
Code(c) ==
  IF IsLower(c) THEN 96 + LetterIdx(Lower, c)
  ELSE IF IsUpper(c) THEN 64 + LetterIdx(Upper, c)
  ELSE CASE c = "TAB" -> 9
         [] c = "NL" -> 10
         [] c = "CR" -> 13
         [] c = " " -> 32
         [] c = "'" -> 39
         [] c = ";" -> 59
         [] c = "BSL" -> 92
         [] c = "E_grave" -> 200
         [] c = "E_acute" -> 201
         [] c = "e_grave" -> 232
         [] c = "e_acute" -> 233
         [] c = "comb_acute" -> 769
         [] c = "rsquo" -> 8217

ToLowerChar(c) ==
  IF IsUpper(c) THEN Lower[LetterIdx(Upper, c)]
  ELSE IF c = "E_acute" THEN "e_acute"
  ELSE IF c = "E_grave" THEN "e_grave"
  ELSE c

ToUpperChar(c) ==
  IF IsLower(c) THEN Upper[LetterIdx(Lower, c)]
  ELSE IF c = "e_acute" THEN "E_acute"
  ELSE IF c = "e_grave" THEN "E_grave"
  ELSE c

toLowerCase(w) == [i \in 1..Len(w) |-> ToLowerChar(w[i])]

toUpperCase(w) == [i \in 1..Len(w) |-> ToUpperChar(w[i])]

\* String.prototype.startsWith / endsWith / slice
startsWith(w, p) == Len(p) <= Len(w) /\ SubSeq(w, 1, Len(p)) = p

endsWith(w, s) == Len(s) <= Len(w) /\ SubSeq(w, Len(w) - Len(s) + 1, Len(w)) = s

\* word.slice(0, -n)
DropLast(w, n) == IF n >= Len(w) THEN <<>> ELSE SubSeq(w, 1, Len(w) - n)

\* word.substring(n)
DropFirst(w, n) == IF n >= Len(w) THEN <<>> ELSE SubSeq(w, n + 1, Len(w))

\* the relational operator < on two strings: code-unit lexicographic order
RECURSIVE StrLess(_, _)
StrLess(a, b) ==
  IF b = <<>> THEN FALSE
  ELSE IF a = <<>> THEN TRUE
  ELSE LET \* x and y are the code units of the first characters of a and b
           HeadLess(x, y) ==
             IF x < y THEN TRUE
             ELSE IF x > y THEN FALSE
             ELSE StrLess(Tail(a), Tail(b))
       IN HeadLess(Code(Head(a)), Code(Head(b)))

\* /[A-Z]/.test(word)
HasAsciiUpper(w) == \E i \in 1..Len(w) : IsUpper(w[i])

\* the contraction prefixes, in the order the source lists them
contractions ==
  << <<"q","u","rsquo">>, <<"l","rsquo">>, <<"d","rsquo">>, <<"c","rsquo">>,
     <<"j","rsquo">>, <<"m","rsquo">>, <<"t","rsquo">>, <<"n","rsquo">>,
     <<"s","rsquo">> >>

isAcronym(word) ==
  LET \* w.length > 0 && w === w.toUpperCase() && /[A-Z]/.test(w)
      AllUpper(w) == Len(w) > 0 /\ w = toUpperCase(w) /\ HasAsciiUpper(w)
  IN \/ Len(word) > 1 /\ AllUpper(word)
     \/ \E i \in 1..Len(contractions) :
          /\ startsWith(word, contractions[i])
          /\ AllUpper(DropFirst(word, Len(contractions[i])))

getSearchTerm(word) == IF isAcronym(word) THEN word ELSE toLowerCase(word)

(***************************************************************************)
(* Index store: binary searches                                            *)
(***************************************************************************)
\* the while loop of binarySearch / binarySearchAll: the position of a row
\* whose key equals searchTerm, or 0 (foundIndex = -1) when the loop ends
RECURSIVE BSearchLoop(_, _, _, _, _)
BSearchLoop(cache, key, searchTerm, left, right) ==
  IF left > right THEN [found |-> 0, left |-> left]
  ELSE LET mid == (left + right) \div 2
       IN IF cache[mid][key] = searchTerm THEN [found |-> mid, left |-> left]
          ELSE IF StrLess(cache[mid][key], searchTerm)
               THEN BSearchLoop(cache, key, searchTerm, mid + 1, right)
               ELSE BSearchLoop(cache, key, searchTerm, left, mid - 1)

\* return foundIndex !== -1 ? cache[foundIndex] : null; r is the result of the loop
RowAt(cache, r) == IF r.found = 0 THEN Null ELSE cache[r.found]

\* binarySearch with the headword searched as given (no getSearchTerm)
binarySearchRawTerm(this, headword) ==
  IF this.indexCache = NullCache \/ Len(this.indexCache) = 0 THEN Null
  ELSE RowAt(this.indexCache,
             BSearchLoop(this.indexCache, "headword", headword,
                         1, Len(this.indexCache)))

binarySearch(this, headword) ==
  IF this.indexCache = NullCache \/ Len(this.indexCache) = 0 THEN Null
  ELSE RowAt(this.indexCache,
             BSearchLoop(this.indexCache, "headword", getSearchTerm(headword),
                         1, Len(this.indexCache)))

\* ScanBack without the backward scan
ScanBackNone(cache, searchTerm, startIndex) == startIndex

\* scan backwards to the first occurrence
RECURSIVE ScanBack(_, _, _)
ScanBack(cache, searchTerm, startIndex) ==
  IF startIndex > 1 /\ cache[startIndex - 1].headword = searchTerm
  THEN ScanBack(cache, searchTerm, startIndex - 1)
  ELSE startIndex

\* scan forwards collecting all occurrences
RECURSIVE ScanFwd(_, _, _)
ScanFwd(cache, searchTerm, currentIndex) ==
  IF currentIndex <= Len(cache) /\ cache[currentIndex].headword = searchTerm
  THEN <<cache[currentIndex]>> \o ScanFwd(cache, searchTerm, currentIndex + 1)
  ELSE <<>>

\* the body shared by binarySearchAll and binarySearchAllBackup
SearchAllIn(cache, headword) ==
  IF cache = NullCache \/ Len(cache) = 0 THEN <<>>
  ELSE LET \* if (foundIndex === -1) return []; scan back, then forward; r is
           \* the result of the loop
           RunFrom(searchTerm, r) ==
             IF r.found = 0 THEN <<>>
             ELSE ScanFwd(cache, searchTerm, ScanBack(cache, searchTerm, r.found))
           SearchTermIn(searchTerm) ==
             RunFrom(searchTerm,
                     BSearchLoop(cache, "headword", searchTerm, 1, Len(cache)))
       IN SearchTermIn(getSearchTerm(headword))

binarySearchAll(this, headword) == SearchAllIn(this.indexCache, headword)

binarySearchAllBackup(this, headword) == SearchAllIn(this.backupIndexCache, headword)

binarySearchConjugation(this, conjugatedForm) ==
  IF this.conjugationIndexCache = NullCache \/ Len(this.conjugationIndexCache) = 0
  THEN Null
  ELSE RowAt(this.conjugationIndexCache,
             BSearchLoop(this.conjugationIndexCache, "conjugatedForm",
                         toLowerCase(conjugatedForm), 1,
                         Len(this.conjugationIndexCache)))

(***************************************************************************)
(* The resources on disk.  A bulk resource (.u8) is a text of lines of     *)
(* tab-separated fields; an index resource (.idx) lists, sorted by         *)
(* headword, the offset and length of each line of its bulk resource.      *)
(* Offsets count characters of the text (one unit per character).          *)
(***************************************************************************)
Languages == {"eng", "deu", "spa"}

\* data/fra-eng.u8: one line per entry, the fields of each line
LinesEng ==
  << << <<"E","S","T">>, <<"n">>, <<>>, <<>>, <<"e","a","s","t">>, <<>> >>,
     << <<"E","S","T"," ","s","u","d">>, <<"n">>, <<>>, <<>>, <<"s","e">>, <<>> >>,
     << <<"a","m","o","u","r">>, <<"n">>, <<"m">>, <<"a","m">>, <<"l","o","v","e">>, <<>> >>,
     << <<"b","a","i","l">>, <<"n">>, <<"m">>, <<>>, <<"l","e","a","s","e">>, <<>> >>,
     << <<"b","a","l">>, <<"v">>, <<>>, <<>>, <<"d","a","n","c","e">>, <<>> >>,
     << <<"b","a","l">>, <<"n">>, <<"m">>, <<>>, <<"b","a","l","l">>, <<>> >>,
     << <<"b","e","l">>, <<"a","d","j">>, <<"m">>, <<>>, <<"f","i","n","e">>, <<>> >>,
     << <<"b","o","n">>, <<"n">>, <<"f">>, <<>>, <<"b","o","n","d">>, <<>> >>,
     << <<"b","o","n">>, <<"a","d","j">>, <<"m">>, <<"b","o">>, <<"g","o","o","d">>, <<>> >>,
     << <<"e","s","t">>, <<"n">>, <<"m">>, <<>>, <<"e","a","s","t">>, <<>> >>,
     << <<"l","i","r","e">>, <<"n">>, <<"f">>, <<>>, <<"l","i","r","a">>, <<>> >>,
     << <<"l","i","r","e">>, <<"v">>, <<>>, <<>>, <<"r","e","a","d">>, <<>> >>,
     << <<"l","i","s">>, <<"n">>, <<"m">>, <<>>, <<"l","i","l","y">>, <<>> >>,
     << <<"p","o","m","m","e">>, <<"n">>, <<"f">>, <<>>, <<"a","p","p","l","e">>, <<>> >>,
     << <<"p","o","m","m","e"," ","d","e">>, <<"n">>, <<>>, <<>>, <<"p","i","p">>, <<>> >>,
     << <<"p","o","m","m","e"," ","d","e"," ","t","e","r","r","e">>, <<"n">>, <<"f">>, <<>>, <<"p","o","t","a","t","o">>, <<>> >>,
     << <<"p","o","m","m","e"," ","d","e"," ","t","e","r","r","e">>, <<"a","d","j">>, <<>>, <<>>, <<"s","p","u","d">>, <<>> >>,
     << <<"p","o","r","t","e">>, <<"n">>, <<"f">>, <<>>, <<"d","o","o","r">>, <<>> >>,
     << <<"p","o","r","t","e","r">>, <<"v">>, <<>>, <<>>, <<"c","a","r","r","y">>, <<>> >>,
     << <<"q","u","rsquo","e","s","t">>, <<"n">>, <<>>, <<>>, <<"i","s">>, <<>> >> >>

\* data/fra-deu.u8
LinesDeu ==
  << << <<"b","o","n">>, <<"a","d","j">>, <<"m">>, <<>>, <<"g","u","t">>, <<>> >>,
     << <<"l","i","s">>, <<"n">>, <<"m">>, <<>>, <<"l","i","l","i","e">> >>,
     << <<"p","o","m","m","e">>, <<"n">>, <<"f">>, <<>>, <<"a","p","f","e","l">>, <<>> >>,
     << <<"p","o","m","m","e"," ","d","e"," ","T","e","r","r","e">>, <<"n">>, <<"f">>, <<>>, <<"e","r","d","a","p","f","e","l">>, <<>> >> >>

\* data/fra-spa.u8
LinesSpa ==
  << << <<"e","s","t">>, <<"n">>, <<"m">>, <<>>, <<"e","s","t","e">>, <<>> >>,
     << <<"e","s","t"," ","s","u","d">>, <<"n">>, <<"m">>, <<>>, <<"s","u","d","e","s","t","e">>, <<>> >>,
     << <<"p","o","m","m","e">>, <<"n">>, <<"f">>, <<>>, <<"p","o","m","a">>, <<>> >> >>

\* data/fra.u8: conjugatedForm, infinitive, tenses, ipas, fullForm
LinesFra ==
  << << <<"l","i","s">>, <<"l","i","r","e">>, <<"i","n","d","i","c","a","t","i","v","e",";","p","r","e","s","e","n","t">>, <<"l","i">>, <<"j","e"," ","l","i","s">> >>,
     << <<"p","o","r","t","e">>, <<"p","o","r","t","e","r">>, <<"i","n","d","i","c","a","t","i","v","e",";","p","r","e","s","e","n","t">>, <<"p","t">>, <<"i","l"," ","p","o","r","t","e">> >>,
     << <<"p","o","r","t","e","s">>, <<"p","o","r","t","e","r">>, <<"i","n","d","i","c","a","t","i","v","e",";","p","r","e","s","e","n","t">>, <<"p","t">>, <<"t","u"," ","p","o","r","t","e","s">> >> >>


RECURSIVE JoinWith(_, _)
JoinWith(fields, sep) ==
  IF Len(fields) = 0 THEN <<>>
  ELSE IF Len(fields) = 1 THEN fields[1]
  ELSE fields[1] \o sep \o JoinWith(Tail(fields), sep)

\* the text of one line of a bulk resource
LineText(fields) == JoinWith(fields, <<"TAB">>) \o <<"NL">>

RECURSIVE TextOf(_)
TextOf(lines) ==
  IF lines = <<>> THEN <<>> ELSE LineText(Head(lines)) \o TextOf(Tail(lines))

\* the rows of the index resource of a bulk resource: headword, offset, length
RECURSIVE IdxRows(_, _)
IdxRows(lines, offset) ==
  IF lines = <<>> THEN <<>>
  ELSE <<[headword |-> Head(lines)[1], offset |-> offset,
          length |-> Len(LineText(Head(lines)))]>>
       \o IdxRows(Tail(lines), offset + Len(LineText(Head(lines))))

RECURSIVE ConjIdxRows(_, _)
ConjIdxRows(lines, offset) ==
  IF lines = <<>> THEN <<>>
  ELSE <<[conjugatedForm |-> Head(lines)[1], offset |-> offset]>>
       \o ConjIdxRows(Tail(lines), offset + Len(LineText(Head(lines))))

\* data/fra-<language>.u8
U8File(language) ==
  CASE language = "eng" -> TextOf(LinesEng)
    [] language = "deu" -> TextOf(LinesDeu)
    [] language = "spa" -> TextOf(LinesSpa)

\* data/fra-<language>.idx
IdxFile(language) ==
  CASE language = "eng" -> IdxRows(LinesEng, 0)
    [] language = "deu" -> IdxRows(LinesDeu, 0)
    [] language = "spa" -> IdxRows(LinesSpa, 0)

\* data/fra.u8 and data/fra.idx
ConjU8File == TextOf(LinesFra)

ConjIdxFile == ConjIdxRows(LinesFra, 0)

\* a ranged read "bytes=offset-(offset+length-1)" of a text: the bytes of the
\* range that exist, or NullStr when the range starts past the end (416)
RangeRead(text, offset, length) ==
  IF offset >= Len(text) \/ length <= 0 THEN NullStr
  ELSE SubSeq(text, offset + 1,
              IF offset + length > Len(text) THEN Len(text) ELSE offset + length)

(***************************************************************************)
(* Entry fetcher                                                           *)
(***************************************************************************)
\* String.prototype.split on a one-character separator: the pieces between
\* consecutive occurrences of the separator
split(s, sep) ==
  LET \* the k-th of the positions P, with 0 before the first and Len(s) + 1
      \* after the last
      Position(P, k) ==
        IF k = 0 THEN 0
        ELSE IF k = Cardinality(P) + 1 THEN Len(s) + 1
        ELSE CHOOSE p \in P : Cardinality({q \in P : q < p}) = k - 1
      \* the pieces of s between the separator positions P
      Pieces(P) ==
        [k \in 1..(Cardinality(P) + 1) |->
           SubSeq(s, Position(P, k - 1) + 1, Position(P, k) - 1)]
  IN Pieces({i \in 1..Len(s) : s[i] = sep})

\* str.replace(/\\c/g, r): every backslash followed by c becomes r
RECURSIVE ReplaceEscape(_, _, _)
ReplaceEscape(s, c, r) ==
  IF Len(s) < 2 THEN s
  ELSE IF s[1] = "BSL" /\ s[2] = c
       THEN <<r>> \o ReplaceEscape(SubSeq(s, 3, Len(s)), c, r)
       ELSE <<s[1]>> \o ReplaceEscape(Tail(s), c, r)

unescape(str) ==
  IF ~Truthy(str) THEN <<>>
  ELSE ReplaceEscape(ReplaceEscape(ReplaceEscape(ReplaceEscape(
         str, "n", "NL"), "t", "TAB"), "r", "CR"), "BSL", "BSL")

\* fields.push('') until there are 6 fields
PadTo6(fields) == fields \o [i \in 1..(6 - Len(fields)) |-> <<>>]

parseEntry(line) ==
  LET \* the entry of at least 5 fields, padded to 6 and unescaped
      EntryOfPadded(f) ==
        [headword |-> unescape(f[1]), pos |-> unescape(f[2]),
         gender |-> unescape(f[3]), pronunciation |-> unescape(f[4]),
         translations |-> unescape(f[5]), definition |-> unescape(f[6])]
      EntryOfFields(fields) ==
        IF Len(fields) < 5 THEN Null ELSE EntryOfPadded(PadTo6(fields))
  IN EntryOfFields(split(IF Len(line) > 0 /\ line[Len(line)] = "NL"
                         THEN DropLast(line, 1) ELSE line,
                         "TAB"))

\* the state of the reads of one call: the ordinals of the ranged reads that
\* fail, whether an index load of the call succeeds, and the reads made so far
NewIO(fails, loadOk) == [fails |-> fails, loadOk |-> loadOk, log |-> <<>>]

\* one ranged read of a bulk resource, parsed by parse; the read is logged
Logged(io, site, resource, offset, length, failed, val) ==
  [val |-> val,
   io |-> [io EXCEPT !.log = Append(@, [site |-> site, resource |-> resource,
                                        offset |-> offset, length |-> length,
                                        failed |-> failed, val |-> val])]]

\* the value of a ranged read: null when the read failed, else the parsed text
Parsed(failed, text) ==
  IF failed \/ text = NullStr THEN Null ELSE parseEntry(text)

fetchEntry(this, offset, length, io, site) ==
  Logged(io, site, this.currentLanguage, offset, length,
         (Len(io.log) + 1) \in io.fails,
         Parsed((Len(io.log) + 1) \in io.fails,
                RangeRead(U8File(this.currentLanguage), offset, length)))

fetchBackupEntry(this, offset, length, io, site) ==
  Logged(io, site, "backup", offset, length,
         (Len(io.log) + 1) \in io.fails,
         Parsed((Len(io.log) + 1) \in io.fails,
                RangeRead(U8File("eng"), offset, length)))

(***************************************************************************)
(* Morphological heuristics                                                *)
(***************************************************************************)
IsSpace(c) == c \in {" ", "TAB", "NL", "CR"}

\* String.prototype.trim
RECURSIVE TrimLeft(_)
TrimLeft(s) == IF s # <<>> /\ IsSpace(Head(s)) THEN TrimLeft(Tail(s)) ELSE s

RECURSIVE TrimRight(_)
TrimRight(s) ==
  IF s # <<>> /\ IsSpace(s[Len(s)]) THEN TrimRight(DropLast(s, 1)) ELSE s

trim(s) == TrimRight(TrimLeft(s))

\* tryRemoveContraction without the test of the length
tryRemoveContractionAnyLength(word) ==
  IF \E i \in 1..Len(contractions) : startsWith(word, contractions[i])
  THEN LET k == CHOOSE k \in 1..Len(contractions) :
                  /\ startsWith(word, contractions[k])
                  /\ \A j \in 1..(k - 1) : ~startsWith(word, contractions[j])
       IN [prefix |-> contractions[k], word |-> DropFirst(word, Len(contractions[k]))]
  ELSE Null

tryRemoveContraction(word) ==
  IF ~Truthy(word) \/ Len(word) < 3 THEN Null
  ELSE IF \E i \in 1..Len(contractions) : startsWith(word, contractions[i])
       THEN LET \* return { prefix: contraction, word: word.substring(...) }
                Decontract(contraction) ==
                  [prefix |-> contraction,
                   word |-> DropFirst(word, Len(contraction))]
            IN Decontract(
                 contractions[CHOOSE k \in 1..Len(contractions) :
                                /\ startsWith(word, contractions[k])
                                /\ \A j \in 1..(k - 1) :
                                     ~startsWith(word, contractions[j])])
       ELSE Null

\* getPluralCandidates where only the first rule that fires contributes
getPluralCandidatesFirstRule(word) ==
  IF Len(word) < 3 THEN <<>>
  ELSE IF endsWith(word, <<"e","a","u","x">>) THEN <<DropLast(word, 1)>>
  ELSE IF endsWith(word, <<"a","u","x">>)
  THEN <<DropLast(word, 3) \o <<"a","l">>, DropLast(word, 3) \o <<"a","u">>,
         DropLast(word, 3) \o <<"a","i","l">>>>
  ELSE IF endsWith(word, <<"e","u","x">>) /\ ~endsWith(word, <<"i","e","u","x">>)
  THEN <<DropLast(word, 1)>>
  ELSE IF endsWith(word, <<"o","u","x">>) THEN <<DropLast(word, 1)>>
  ELSE IF endsWith(word, <<"s">>) THEN <<DropLast(word, 1)>>
  ELSE <<>>

getPluralCandidates(word) ==
  IF Len(word) < 3 THEN <<>>
  ELSE (IF endsWith(word, <<"e","a","u","x">>) THEN <<DropLast(word, 1)>> ELSE <<>>)
    \o (IF endsWith(word, <<"a","u","x">>)
        THEN LET stem == DropLast(word, 3)
             IN <<stem \o <<"a","l">>, stem \o <<"a","u">>, stem \o <<"a","i","l">>>>
        ELSE <<>>)
    \o (IF endsWith(word, <<"e","u","x">>) /\ ~endsWith(word, <<"i","e","u","x">>)
        THEN <<DropLast(word, 1)>> ELSE <<>>)
    \o (IF endsWith(word, <<"o","u","x">>) THEN <<DropLast(word, 1)>> ELSE <<>>)
    \o (IF endsWith(word, <<"s">>) /\ Len(word) > 2
        THEN <<DropLast(word, 1)>> ELSE <<>>)

\* the seven noun plural rules
NounPluralRule(pluralForm, singularForm) ==
  \/ endsWith(pluralForm, <<"a","u","x">>) /\ endsWith(singularForm, <<"a","l">>)
  \/ endsWith(pluralForm, <<"a","u","x">>) /\ endsWith(singularForm, <<"a","u">>)
  \/ endsWith(pluralForm, <<"a","u","x">>) /\ endsWith(singularForm, <<"a","i","l">>)
  \/ endsWith(pluralForm, <<"e","a","u","x">>) /\ endsWith(singularForm, <<"e","a","u">>)
  \/ endsWith(pluralForm, <<"e","u","x">>) /\ endsWith(singularForm, <<"e","u">>)
  \/ endsWith(pluralForm, <<"o","u","x">>) /\ endsWith(singularForm, <<"o","u">>)
  \/ endsWith(pluralForm, <<"s">>) /\ ~endsWith(singularForm, <<"s">>)

isValidPluralTransformation(pluralForm, singularForm, pos) ==
  IF ~Truthy(pos) \/ trim(pos) = <<>> THEN NounPluralRule(pluralForm, singularForm)
  ELSE LET \* from "Only allow plural transformations for nouns and adjectives"
           PluralRuleFor(posLower) ==
             IF posLower # <<"n">> /\ posLower # <<"a","d","j">> THEN FALSE
             ELSE IF posLower = <<"n">> THEN NounPluralRule(pluralForm, singularForm)
             ELSE \/ endsWith(pluralForm, <<"a","u","x">>)
                     /\ endsWith(singularForm, <<"a","l">>)
                  \/ endsWith(pluralForm, <<"e","a","u","x">>)
                     /\ endsWith(singularForm, <<"e","a","u">>)
                  \/ endsWith(pluralForm, <<"s">>) /\ ~endsWith(singularForm, <<"s">>)
       IN PluralRuleFor(trim(toLowerCase(pos)))

\* getFeminineCandidates where every pattern that matches contributes
getFeminineCandidatesAllPatterns(word) ==
  IF ~endsWith(word, <<"e">>) \/ Len(word) < 3 THEN <<>>
  ELSE
    LET R(ending, by) ==
          IF endsWith(word, ending) THEN <<DropLast(word, Len(ending)) \o by>>
          ELSE <<>>
        all ==
          R(<<"i","e","n","n","e">>, <<"i","e","n">>)
          \o R(<<"t","e","u","s","e">>, <<"t","e","u","r">>)
          \o R(<<"e","u","s","e">>, <<"e","u","x">>)
          \o R(<<"r","i","c","e">>, <<"t","e","u","r">>)
          \o R(<<"r","i","c","e">>, <<"e","u","r">>)
          \o R(<<"e_grave","r","e">>, <<"e","r">>)
          \o R(<<"e","l","l","e">>, <<"e","l">>)
          \o R(<<"e","n","n","e">>, <<"e","n">>)
          \o R(<<"o","n","n","e">>, <<"o","n">>)
          \o R(<<"i","n","n","e">>, <<"i","n">>)
          \o R(<<"e","t","t","e">>, <<"e","t">>)
          \o R(<<"v","e">>, <<"f">>)
          \o R(<<"s","e">>, <<"x">>)
          \o R(<<"q","u","e">>, <<"c">>)
          \o R(<<"c","h","e">>, <<"c">>)
          \o R(<<"g","u","e">>, <<"g">>)
    IN IF all = <<>> THEN <<DropLast(word, 1)>> ELSE all

getFeminineCandidates(word) ==
  IF ~endsWith(word, <<"e">>) \/ Len(word) < 3 THEN <<>>
  ELSE
    LET \* from const stem = word.slice(0, -1)
        MasculineCandidates(stem) ==
          IF endsWith(stem, <<"i","e","n","n">>) THEN <<DropLast(stem, 1)>>
          ELSE IF endsWith(stem, <<"t","e","u","s">>)
               THEN <<DropLast(word, 5) \o <<"t","e","u","r">>>>
          ELSE IF endsWith(stem, <<"e","u","s">>)
               THEN <<DropLast(word, 4) \o <<"e","u","x">>>>
          ELSE IF endsWith(stem, <<"r","i","c">>)
               THEN <<DropLast(word, 4) \o <<"t","e","u","r">>,
                      DropLast(word, 4) \o <<"e","u","r">>>>
          ELSE IF endsWith(stem, <<"e_grave","r">>)
               THEN <<DropLast(word, 3) \o <<"e","r">>>>
          ELSE IF endsWith(stem, <<"e","l","l">>)
               THEN <<DropLast(word, 4) \o <<"e","l">>>>
          ELSE IF endsWith(stem, <<"e","n","n">>)
               THEN <<DropLast(word, 4) \o <<"e","n">>>>
          ELSE IF endsWith(stem, <<"o","n","n">>)
               THEN <<DropLast(word, 4) \o <<"o","n">>>>
          ELSE IF endsWith(stem, <<"i","n","n">>)
               THEN <<DropLast(word, 4) \o <<"i","n">>>>
          ELSE IF endsWith(stem, <<"e","t","t">>)
               THEN <<DropLast(word, 4) \o <<"e","t">>>>
          ELSE IF endsWith(stem, <<"v">>) THEN <<DropLast(word, 2) \o <<"f">>>>
          ELSE IF endsWith(stem, <<"s">>) THEN <<DropLast(word, 2) \o <<"x">>>>
          ELSE IF endsWith(stem, <<"q","u">>) THEN <<DropLast(word, 3) \o <<"c">>>>
          ELSE IF endsWith(stem, <<"c","h">>) THEN <<DropLast(word, 3) \o <<"c">>>>
          ELSE IF endsWith(stem, <<"g","u">>) THEN <<DropLast(word, 3) \o <<"g">>>>
          ELSE <<stem>>
    IN MasculineCandidates(DropLast(word, 1))

\* the suffix pairs checked by isValidFeminineTransformation, then the basic
\* pattern feminine = masculine + e
FemininePattern(feminineForm, masculineForm) ==
  \/ endsWith(feminineForm, <<"i","e","n","n","e">>) /\ endsWith(masculineForm, <<"i","e","n">>)
  \/ endsWith(feminineForm, <<"e","n","n","e">>) /\ endsWith(masculineForm, <<"e","n">>)
  \/ endsWith(feminineForm, <<"o","n","n","e">>) /\ endsWith(masculineForm, <<"o","n">>)
  \/ endsWith(feminineForm, <<"i","n","n","e">>) /\ endsWith(masculineForm, <<"i","n">>)
  \/ endsWith(feminineForm, <<"e","l","l","e">>) /\ endsWith(masculineForm, <<"e","l">>)
  \/ endsWith(feminineForm, <<"e","t","t","e">>) /\ endsWith(masculineForm, <<"e","t">>)
  \/ endsWith(feminineForm, <<"v","e">>) /\ endsWith(masculineForm, <<"f">>)
  \/ endsWith(feminineForm, <<"s","e">>) /\ endsWith(masculineForm, <<"x">>)
  \/ endsWith(feminineForm, <<"e_grave","r","e">>) /\ endsWith(masculineForm, <<"e","r">>)
  \/ endsWith(feminineForm, <<"e","u","s","e">>) /\ endsWith(masculineForm, <<"e","u","x">>)
  \/ endsWith(feminineForm, <<"r","i","c","e">>) /\ endsWith(masculineForm, <<"t","e","u","r">>)
  \/ endsWith(feminineForm, <<"r","i","c","e">>) /\ endsWith(masculineForm, <<"e","u","r">>)
  \/ endsWith(feminineForm, <<"t","e","u","s","e">>) /\ endsWith(masculineForm, <<"t","e","u","r">>)
  \/ endsWith(feminineForm, <<"q","u","e">>) /\ endsWith(masculineForm, <<"c">>)
  \/ endsWith(feminineForm, <<"c","h","e">>) /\ endsWith(masculineForm, <<"c">>)
  \/ endsWith(feminineForm, <<"g","u","e">>) /\ endsWith(masculineForm, <<"g">>)
  \/ DropLast(feminineForm, 1) = masculineForm

isValidFeminineTransformation(feminineForm, masculineForm, pos, gender) ==
  IF ~Truthy(pos) \/ trim(pos) = <<>> \/ ~Truthy(gender) \/ trim(gender) = <<>>
  THEN endsWith(feminineForm, <<"e">>) /\ FemininePattern(feminineForm, masculineForm)
  ELSE LET \* from "Only allow feminine transformations for nouns and adjectives"
           FeminineRuleFor(posLower, genderLower) ==
             IF posLower # <<"n">> /\ posLower # <<"a","d","j">> THEN FALSE
             ELSE IF genderLower # <<"m">> THEN FALSE
             ELSE IF ~endsWith(feminineForm, <<"e">>) THEN FALSE
             ELSE FemininePattern(feminineForm, masculineForm)
       IN FeminineRuleFor(trim(toLowerCase(pos)), trim(toLowerCase(gender)))

\* an inflection note: the fixed text, the quoted base form and, when the
\* pronunciation is truthy, the bracketed pronunciation appended to it
Note(text, base, pronunciation) ==
  [text |-> text, base |-> base,
   pronunciation |-> IF Truthy(pronunciation) THEN pronunciation ELSE NullStr]

getFeminineInflectionNote(feminineForm, masculineForm, pronunciation) ==
  Note("feminine of", masculineForm, pronunciation)

getInflectionNote(searchedForm, baseForm, pronunciation) ==
  IF \/ endsWith(searchedForm, <<"s">>) /\ ~endsWith(baseForm, <<"s">>)
     \/ endsWith(searchedForm, <<"a","u","x">>) /\ endsWith(baseForm, <<"a","l">>)
     \/ endsWith(searchedForm, <<"a","u","x">>) /\ endsWith(baseForm, <<"a","u">>)
     \/ endsWith(searchedForm, <<"a","u","x">>) /\ endsWith(baseForm, <<"a","i","l">>)
     \/ endsWith(searchedForm, <<"e","a","u","x">>) /\ endsWith(baseForm, <<"e","a","u">>)
     \/ endsWith(searchedForm, <<"e","u","x">>) /\ endsWith(baseForm, <<"e","u">>)
     \/ endsWith(searchedForm, <<"o","u","x">>) /\ endsWith(baseForm, <<"o","u">>)
  THEN Note("plural of", baseForm, pronunciation)
  ELSE Note("inflected form of", baseForm, pronunciation)

(***************************************************************************)
(* Lookup orchestrator.  Every asynchronous operation takes the dictionary *)
(* object (this) and the state of the reads (io) and returns its value     *)
(* together with the state of the reads after it.                          *)
(***************************************************************************)
\* String.prototype.normalize('NFC') on the characters of the model: a base
\* letter followed by the combining acute accent composes
RECURSIVE NFC(_)
NFC(s) ==
  IF Len(s) < 2 THEN s
  ELSE IF s[2] = "comb_acute" /\ s[1] \in {"e", "E"}
       THEN <<IF s[1] = "e" THEN "e_acute" ELSE "E_acute">>
            \o NFC(SubSeq(s, 3, Len(s)))
       ELSE <<s[1]>> \o NFC(Tail(s))

\* word.replace(/'/g, '’')
curlyApostrophes(s) == [i \in 1..Len(s) |-> IF s[i] = "'" THEN "rsquo" ELSE s[i]]

\* the normalisation at the head of lookup and lookupAll
normalizeWord(word) == getSearchTerm(curlyApostrophes(NFC(word)))

\* String.prototype.includes
includes(s, sub) ==
  \E i \in 0..(Len(s) - Len(sub)) : SubSeq(s, i + 1, i + Len(sub)) = sub

\* object with the field k set to v
SetField(obj, k, v) == (k :> v) @@ obj

HasField(obj, k) == k \in DOMAIN obj

Ret(val, io) == [val |-> val, io |-> io, threw |-> FALSE]

\* a TypeError escaping the operation
Throw(io) == [val |-> Null, io |-> io, threw |-> TRUE]

ChunkSize == 1024

parseConjugationEntry(line) ==
  LET ConjugationOfFields(fields) ==
        IF Len(fields) < 4 THEN Null
        ELSE [conjugatedForm |-> fields[1], infinitive |-> fields[2],
              tenses |-> fields[3], ipas |-> fields[4],
              fullForm |-> IF Len(fields) >= 5 /\ fields[5] # <<>>
                           THEN fields[5] ELSE fields[1]]
  IN ConjugationOfFields(split(line, "TAB"))

fetchConjugationEntries(this, offset, conjugatedForm, io) ==
  LET \* the first line of the chunk, parsed
      FirstLine(line) ==
        IF trim(line) = <<>> THEN Null ELSE parseConjugationEntry(line)
      \* the value of the read: null when it failed
      ParsedChunk(failed, text) ==
        IF failed \/ text = NullStr THEN Null ELSE FirstLine(split(text, "NL")[1])
  IN Logged(io, "conjugation", "fra", offset, ChunkSize,
            (Len(io.log) + 1) \in io.fails,
            ParsedChunk((Len(io.log) + 1) \in io.fails,
                        RangeRead(ConjU8File, offset, ChunkSize)))

lookupConjugation(this, conjugatedForm, io) ==
  IF ~this.conjugationIndexLoaded THEN [val |-> Null, io |-> io]
  ELSE LET \* after the binary search
           ConjugationAt(indexEntry) ==
             IF indexEntry = Null THEN [val |-> Null, io |-> io]
             ELSE fetchConjugationEntries(this, indexEntry.offset, conjugatedForm, io)
       IN ConjugationAt(binarySearchConjugation(this, conjugatedForm))

\* for (const candidate of candidates) { result = await lookupConjugation(candidate);
\* if (result) break; }
RECURSIVE FirstConjugation(_, _, _, _)
FirstConjugation(this, candidates, i, io) ==
  IF i > Len(candidates) THEN [val |-> Null, io |-> io]
  ELSE LET \* if (result) break; result is the conjugation found for candidates[i]
           BreakOrNext(result) ==
             IF result.val # Null THEN result
             ELSE FirstConjugation(this, candidates, i + 1, result.io)
       IN BreakOrNext(lookupConjugation(this, candidates[i], io))

\* the order in which the plural retry of lookupConjugationWithHeuristics looks
\* forms up: each singular candidate, then, when it ends in e, its masculine
\* candidates
RECURSIVE SingularThenMasculine(_)
SingularThenMasculine(singularCandidates) ==
  IF singularCandidates = <<>> THEN <<>>
  ELSE LET candidate == Head(singularCandidates)
       IN <<candidate>>
          \o (IF endsWith(candidate, <<"e">>)
              THEN getFeminineCandidates(candidate) ELSE <<>>)
          \o SingularThenMasculine(Tail(singularCandidates))

\* for (const indexEntry of indexEntries): the first fetched entry that is a verb
RECURSIVE FirstVerb(_, _, _, _)
FirstVerb(this, indexEntries, i, io) ==
  IF i > Len(indexEntries) THEN [val |-> Null, io |-> io]
  ELSE LET \* entry && entry.pos && (entry.pos === 'v' || entry.pos.includes('verb'))
           IsVerb(entry) ==
             /\ entry # Null
             /\ Truthy(entry.pos)
             /\ (entry.pos = <<"v">> \/ includes(entry.pos, <<"v","e","r","b">>))
           \* f is the read of indexEntries[i]
           VerbOrNext(f) ==
             IF IsVerb(f.val) THEN f ELSE FirstVerb(this, indexEntries, i + 1, f.io)
       IN VerbOrNext(fetchEntry(this, indexEntries[i].offset, indexEntries[i].length,
                                io, "infinitive"))

\* "If no verb found, return the first entry anyway"; v is the result of the loop
VerbOrFirst(this, indexEntries, v) ==
  IF v.val # Null THEN v
  ELSE fetchEntry(this, indexEntries[1].offset, indexEntries[1].length,
                  v.io, "infinitive")

\* lookupInfinitive after binarySearchAll
InfinitiveAmong(this, indexEntries, io) ==
  IF Len(indexEntries) = 0 THEN [val |-> Null, io |-> io]
  ELSE VerbOrFirst(this, indexEntries, FirstVerb(this, indexEntries, 1, io))

lookupInfinitive(this, infinitive, io) ==
  InfinitiveAmong(this, binarySearchAll(this, toLowerCase(NFC(infinitive))), io)

\* the inflection note of a conjugated form: the quoted infinitive and the
\* tense description in parentheses
ConjugationNote(conjugationResult) ==
  [text |-> "conjugated form of", base |-> conjugationResult.infinitive,
   tenses |-> conjugationResult.tenses, fullForm |-> conjugationResult.fullForm]



\* lookupConjugationWithHeuristics, "If not found and word ends with 'e'"
ViaFeminine(this, normalizedWord, direct) ==
  IF direct.val = Null /\ endsWith(normalizedWord, <<"e">>)
  THEN FirstConjugation(this, getFeminineCandidates(normalizedWord), 1, direct.io)
  ELSE direct

\* lookupConjugationWithHeuristics, "If still not found and word ends with 's'"
ViaPlural(this, normalizedWord, viaFeminine) ==
  IF viaFeminine.val = Null /\ endsWith(normalizedWord, <<"s">>)
  THEN FirstConjugation(this, SingularThenMasculine(getPluralCandidates(normalizedWord)),
                        1, viaFeminine.io)
  ELSE viaFeminine

RECURSIVE lookupConjugationWithHeuristics(_, _, _)
\* lookupConjugationWithHeuristics, from "If still not found, try removing
\* contractions"; found is the result of the direct, feminine and plural tries
AfterHeuristics(this, normalizedWord, found, contractionResult) ==
  LET \* the infinitive entry augmented with the conjugation info
      AugmentedEntry(infinitiveEntry, conjugationResult, augmented) ==
        IF Truthy(conjugationResult.ipas)
        THEN SetField(augmented, "pronunciation", conjugationResult.ipas)
        ELSE augmented
      \* from "Now lookup the infinitive"; inf is the result of lookupInfinitive
      WithInfinitive(conjugationResult, inf) ==
        IF inf.val = Null THEN [val |-> Null, io |-> inf.io]
        ELSE [val |->
                AugmentedEntry(inf.val, conjugationResult,
                  SetField(SetField(SetField(inf.val, "searchedForm", normalizedWord),
                                    "conjugationInfo", conjugationResult),
                           "inflectionNote", ConjugationNote(conjugationResult))),
              io |-> inf.io]
  IN IF found.val = Null /\ contractionResult # Null
     THEN lookupConjugationWithHeuristics(this, contractionResult.word, found.io)
     ELSE IF found.val = Null THEN [val |-> Null, io |-> found.io]
     ELSE WithInfinitive(found.val,
                         lookupInfinitive(this, found.val.infinitive, found.io))

lookupConjugationWithHeuristics(this, normalizedWord, io) ==
  IF isAcronym(normalizedWord) THEN [val |-> Null, io |-> io]
  ELSE AfterHeuristics(this, normalizedWord,
         ViaPlural(this, normalizedWord,
           ViaFeminine(this, normalizedWord,
             lookupConjugation(this, normalizedWord, io))),
         tryRemoveContraction(normalizedWord))

\* String.prototype.split(/\s+/)
RECURSIVE SplitSpaces(_, _)
SplitSpaces(s, cur) ==
  IF s = <<>> THEN <<cur>>
  ELSE IF IsSpace(Head(s)) THEN <<cur>> \o SplitSpaces(TrimLeft(s), <<>>)
  ELSE SplitSpaces(Tail(s), Append(cur, Head(s)))

splitSpaces(s) == SplitSpaces(s, <<>>)

\* .filter(w => w.length > 0)
NonEmpty(w) == Len(w) > 0

\* lookupMultiWord: scan forward from startIndex collecting the entries that
\* start with the first word
RECURSIVE MultiWordCandidates(_, _, _)
MultiWordCandidates(cache, firstWordLower, currentIndex) ==
  IF currentIndex > Len(cache) THEN <<>>
  ELSE LET \* the body of the scan for the entry at currentIndex; entryWords
           \* are the words of its headword
           CandidatesFrom(entry, entryWords) ==
             IF ~startsWith(entry.headword, firstWordLower)
                /\ entryWords[1] # firstWordLower
             THEN <<>>
             ELSE (IF Len(entryWords) > 1 /\ entryWords[1] = firstWordLower
                   THEN <<entry>>
                   ELSE IF entry.headword = firstWordLower THEN <<entry>> ELSE <<>>)
                  \o MultiWordCandidates(cache, firstWordLower, currentIndex + 1)
       IN CandidatesFrom(cache[currentIndex],
                         splitSpaces(cache[currentIndex].headword))

\* lookupMultiWord: do the words after the first of a candidate match the
\* leading words of the following text?
RemainingMatch(candidateWords, words) ==
  LET remainingWords == Tail(candidateWords)
  IN \A i \in 1..Len(remainingWords) :
       i <= Len(words) /\ words[i] = remainingWords[i]

\* lookupMultiWord: the loop keeping the longest match; best is the pair
\* (longestMatch, longestMatchWordCount)
RECURSIVE LongestMatch(_, _, _, _)
LongestMatch(candidates, i, words, best) ==
  IF i > Len(candidates) THEN best
  ELSE LET \* the body of the loop for candidates[i]; candidateWords are the
           \* words of its headword
           MatchOrNext(candidateWords) ==
             IF Len(candidateWords) = 1
             THEN LongestMatch(candidates, i + 1, words, best)
             ELSE IF RemainingMatch(candidateWords, words)
                     /\ Len(candidateWords) > best.count
             THEN LongestMatch(candidates, i + 1, words,
                               [match |-> candidates[i],
                                count |-> Len(candidateWords)])
             ELSE LongestMatch(candidates, i + 1, words, best)
       IN MatchOrNext(splitSpaces(candidates[i].headword))

lookupMultiWord(this, firstWord, followingText, io) ==
  IF this.indexCache = NullCache THEN Throw(io)
  ELSE
    LET \* startIndex, from the result r of the binary search loop
        StartIndex(firstWordLower, r) ==
          IF r.found # 0 THEN ScanBack(this.indexCache, firstWordLower, r.found)
          ELSE r.left
        \* the entries that start with the first word
        Candidates(firstWordLower) ==
          MultiWordCandidates(this.indexCache, firstWordLower,
            StartIndex(firstWordLower,
                       BSearchLoop(this.indexCache, "headword", firstWordLower,
                                   1, Len(this.indexCache))))
        \* the words of the normalized following text
        words == SelectSeq(splitSpaces(toLowerCase(NFC(followingText))), NonEmpty)
        \* entry.matchedWords = longestMatchWordCount; f is the read of the
        \* longest match
        MatchedEntry(f, count) ==
          Ret(IF f.val # Null THEN SetField(f.val, "matchedWords", count) ELSE Null,
              f.io)
        \* if (longestMatch && longestMatchWordCount > 1)
        FetchLongest(best) ==
          IF best.match # Null /\ best.count > 1
          THEN MatchedEntry(fetchEntry(this, best.match.offset, best.match.length,
                                       io, "multiWord"),
                            best.count)
          ELSE Ret(Null, io)
    IN FetchLongest(LongestMatch(Candidates(toLowerCase(firstWord)), 1, words,
                                 [match |-> Null, count |-> 1]))

\* the validation applied to a fetched entry by the heuristic loops
ValidFor(kind, form, entry) ==
  CASE kind = "plural" -> isValidPluralTransformation(form, entry.headword, entry.pos)
    [] kind = "feminine" ->
         isValidFeminineTransformation(form, entry.headword, entry.pos, entry.gender)

\* for (const indexEntry of indexEntries) { entry = await fetchEntry(...);
\* if (entry && valid) return ... }: the first fetched entry that validates
RECURSIVE FirstValidEntry(_, _, _, _, _, _, _)
FirstValidEntry(this, indexEntries, i, io, site, kind, form) ==
  IF i > Len(indexEntries) THEN [val |-> Null, io |-> io]
  ELSE LET \* f is the read of indexEntries[i]
           ValidOrNext(f) ==
             IF f.val # Null /\ ValidFor(kind, form, f.val) THEN f
             ELSE FirstValidEntry(this, indexEntries, i + 1, f.io, site, kind, form)
       IN ValidOrNext(fetchEntry(this, indexEntries[i].offset,
                                 indexEntries[i].length, io, site))

\* for (const candidate of candidates) { indexEntries = binarySearchAll(candidate);
\* ... }: the first entry of the first candidate that validates
RECURSIVE FirstValidCandidate(_, _, _, _, _, _, _)
FirstValidCandidate(this, candidates, i, io, site, kind, form) ==
  IF i > Len(candidates) THEN [val |-> Null, io |-> io]
  ELSE LET \* r is the first valid entry of candidates[i]
           FoundOrNext(r) ==
             IF r.val # Null THEN r
             ELSE FirstValidCandidate(this, candidates, i + 1, r.io, site, kind, form)
       IN FoundOrNext(FirstValidEntry(this, binarySearchAll(this, candidates[i]),
                                      1, io, site, kind, form))

\* PluralEntry that keeps the pronunciation of the base form
PluralEntryKeepsPronunciation(entry, normalizedWord) ==
  SetField(
    SetField(entry, "searchedForm", normalizedWord),
    "inflectionNote",
    getInflectionNote(normalizedWord, entry.headword, entry.pronunciation))

\* lookup, validated plural form: searchedForm, inflectionNote, pronunciation = null
PluralEntry(entry, normalizedWord) ==
  SetField(
    SetField(
      SetField(entry, "searchedForm", normalizedWord),
      "inflectionNote",
      getInflectionNote(normalizedWord, entry.headword, entry.pronunciation)),
    "pronunciation", NullStr)

\* lookup, validated feminine of a plural candidate
PluralFeminineEntry(entry, normalizedWord) ==
  SetField(PluralEntry(entry, normalizedWord), "gender", <<"f">>)

\* FeminineEntry that keeps the gender of the masculine entry
FeminineEntryKeepsGender(entry, normalizedWord) ==
  SetField(
    SetField(
      SetField(entry, "searchedForm", normalizedWord),
      "inflectionNote",
      getFeminineInflectionNote(normalizedWord, entry.headword, entry.pronunciation)),
    "pronunciation", NullStr)

\* lookup, validated feminine form
FeminineEntry(entry, normalizedWord) ==
  SetField(
    SetField(
      SetField(
        SetField(entry, "searchedForm", normalizedWord),
        "inflectionNote",
        getFeminineInflectionNote(normalizedWord, entry.headword, entry.pronunciation)),
      "gender", <<"f">>),
    "pronunciation", NullStr)

\* lookup, the plural-to-singular loop over the candidates
RECURSIVE PluralLoop(_, _, _, _, _)
\* p is the valid singular entry found for candidates[i]
AfterSingular(this, normalizedWord, candidates, i, p) ==
  LET \* m is the masculine entry found for the singular candidate
      AfterMasculine(m) ==
        IF m.val # Null
        THEN [val |-> PluralFeminineEntry(m.val, normalizedWord), io |-> m.io]
        ELSE PluralLoop(this, normalizedWord, candidates, i + 1, m.io)
  IN IF p.val # Null
     THEN [val |-> PluralEntry(p.val, normalizedWord), io |-> p.io]
     ELSE AfterMasculine(
            IF endsWith(candidates[i], <<"e">>)
            THEN FirstValidCandidate(this, getFeminineCandidates(candidates[i]), 1,
                                     p.io, "pluralFeminine", "feminine",
                                     candidates[i])
            ELSE p)

PluralLoop(this, normalizedWord, candidates, i, io) ==
  IF i > Len(candidates) THEN [val |-> Null, io |-> io]
  ELSE AfterSingular(this, normalizedWord, candidates, i,
         FirstValidEntry(this, binarySearchAll(this, candidates[i]), 1, io,
                         "plural", "plural", normalizedWord))

AlternateDefinition(entry) ==
  [type |-> "bilingual", headword |-> entry.headword, pos |-> entry.pos,
   gender |-> entry.gender, pronunciation |-> entry.pronunciation,
   translations |-> entry.translations, definition |-> entry.definition]

\* loadIndex that sets the flag and leaves the cache alone
loadIndexFlagOnly(this, ok) == [this EXCEPT !.indexLoaded = TRUE]

loadIndex(this, ok) ==
  IF ok THEN [this EXCEPT !.indexCache = IdxFile(this.currentLanguage),
                          !.indexLoaded = TRUE]
  ELSE [this EXCEPT !.indexLoaded = FALSE]

loadBackupIndex(this, ok) ==
  IF ok THEN [this EXCEPT !.backupIndexCache = IdxFile("eng"),
                          !.backupIndexLoaded = TRUE]
  ELSE [this EXCEPT !.backupIndexLoaded = FALSE]

loadConjugationIndex(this, ok) ==
  LET \* conjugatedForm: parts[0].toLowerCase(), offset: parseInt(parts[1], 10)
      LowerForms(rows) ==
        [i \in 1..Len(rows) |->
           [conjugatedForm |-> toLowerCase(rows[i].conjugatedForm),
            offset |-> rows[i].offset]]
  IN IF ok THEN [this EXCEPT !.conjugationIndexCache = LowerForms(ConjIdxFile),
                             !.conjugationIndexLoaded = TRUE]
     ELSE [this EXCEPT !.conjugationIndexLoaded = FALSE]

\* the result of lookup / lookupAll: the value returned (or the exception
\* thrown), the reads made and the dictionary object after the call
\* Out of an operation that forgets its index
OutForgetsIndex(r, this) ==
  [val |-> r.val, io |-> r.io, threw |-> r.threw,
   this |-> [this EXCEPT !.indexLoaded = FALSE]]

Out(r, this) == [val |-> r.val, io |-> r.io, threw |-> r.threw, this |-> this]

\* ContractionEntry without the originalSearched annotation
ContractionEntryPrefixOnly(decontractedEntry, contractionResult, normalizedWord) ==
  SetField(decontractedEntry, "contractionPrefix", contractionResult.prefix)

\* lookup, "Add note about the contraction"
ContractionEntry(decontractedEntry, contractionResult, normalizedWord) ==
  SetField(SetField(decontractedEntry, "contractionPrefix", contractionResult.prefix),
           "originalSearched", normalizedWord)

RECURSIVE lookup(_, _, _, _)
\* lookup, "Try feminine-to-masculine heuristics"; plural is the result of the
\* plural loop
FeminineStage(this, normalizedWord, plural) ==
  LET \* the validated feminine form; feminine is the result of the heuristic
      FeminineFound(feminine) ==
        IF feminine.val # Null
        THEN [val |-> FeminineEntry(feminine.val, normalizedWord),
              io |-> feminine.io]
        ELSE feminine
  IN IF plural.val # Null THEN plural
     ELSE FeminineFound(
            FirstValidCandidate(this, getFeminineCandidates(normalizedWord), 1,
                                plural.io, "feminine", "feminine", normalizedWord))

\* lookup, if (!indexEntry) { plural heuristics; feminine heuristics }
Heuristics(this, normalizedWord, io, indexEntry) ==
  IF indexEntry = Null
  THEN FeminineStage(this, normalizedWord,
         PluralLoop(this, normalizedWord, getPluralCandidates(normalizedWord), 1, io))
  ELSE [val |-> Null, io |-> io]

\* lookup, after the conjugation check; conj is its result
FromConjugation(this, normalizedWord, followingText, indexEntry, conj) ==
  LET \* if (indexEntry) { ... }: f is the read of the exact entry
      WithExact(f) ==
        IF conj.val # Null
        THEN IF f.val = Null THEN Throw(f.io)
             ELSE Ret(SetField(conj.val, "alternateDefinition",
                               AlternateDefinition(f.val)), f.io)
        ELSE Ret(f.val, f.io)
      \* d is the result of the lookup of the decontracted word
      Decontracted(d, contractionResult) ==
        IF d.threw THEN Throw(d.io)
        ELSE IF d.val # Null
        THEN Ret(ContractionEntry(d.val, contractionResult, normalizedWord), d.io)
        ELSE Ret(Null, d.io)
      \* "If still not found, try removing contractions"
      ViaContraction(contractionResult) ==
        IF contractionResult = Null THEN Ret(Null, conj.io)
        ELSE Decontracted(lookup(this, contractionResult.word, followingText,
                                 conj.io),
                          contractionResult)
  IN IF indexEntry # Null
     THEN WithExact(fetchEntry(this, indexEntry.offset, indexEntry.length,
                               conj.io, "exact"))
     ELSE IF conj.val # Null THEN Ret(conj.val, conj.io)
     ELSE ViaContraction(tryRemoveContraction(normalizedWord))

\* lookup, after the plural and feminine heuristics; found is their result
FromHeuristics(this, normalizedWord, followingText, indexEntry, found) ==
  IF found.val # Null THEN Ret(found.val, found.io)
  ELSE FromConjugation(this, normalizedWord, followingText, indexEntry,
         lookupConjugationWithHeuristics(this, normalizedWord, found.io))

\* lookup, after const indexEntry = this.binarySearch(normalizedWord)
FromIndexEntry(this, normalizedWord, followingText, io, indexEntry) ==
  FromHeuristics(this, normalizedWord, followingText, indexEntry,
                 Heuristics(this, normalizedWord, io, indexEntry))

\* lookup, from "Try exact match" to the end
lookupFromExact(this, normalizedWord, followingText, io) ==
  FromIndexEntry(this, normalizedWord, followingText, io,
                 binarySearch(this, normalizedWord))

\* if (!this.indexLoaded) { await this.loadIndex(); }
Loaded(this, loadOk) == IF ~this.indexLoaded THEN loadIndex(this, loadOk) ELSE this

\* if (followingText && followingText.trim().length > 0) lookupMultiWord(...)
MultiWord(this, normalizedWord, followingText, io) ==
  IF Truthy(followingText) /\ Len(trim(followingText)) > 0
  THEN lookupMultiWord(this, normalizedWord, followingText, io)
  ELSE Ret(Null, io)

\* lookup, if (multiWordEntry) return multiWordEntry; multi is the result of
\* the multi-word step
AfterMultiWord(this, normalizedWord, followingText, multi) ==
  IF multi.threw THEN multi
  ELSE IF multi.val # Null THEN multi
  ELSE lookupFromExact(this, normalizedWord, followingText, multi.io)

\* lookup, from const normalizedWord = ...
LookupWord(this, normalizedWord, followingText, io) ==
  AfterMultiWord(this, normalizedWord, followingText,
                 MultiWord(this, normalizedWord, followingText, io))

\* LookupLoaded without the test of the loaded flag
LookupLoadedAnyway(this1, word, followingText, io) ==
  Out(LookupWord(this1, normalizeWord(word), followingText, io), this1)

\* lookup, after the index load; this1 is the dictionary after it
LookupLoaded(this1, word, followingText, io) ==
  IF ~this1.indexLoaded THEN Out(Ret(Null, io), this1)
  ELSE Out(LookupWord(this1, normalizeWord(word), followingText, io), this1)

lookup(this, word, followingText, io) ==
  LookupLoaded(Loaded(this, io.loadOk), word, followingText, io)

\* lookupAll / lookupAllBackup: the entry pushed for a fetched entry, or Null
\* when the loop's condition rejects it
Pushed(kind, form, entry) ==
  IF entry = Null THEN Null
  ELSE CASE kind = "exact" -> entry
         [] kind = "plural" ->
              IF isValidPluralTransformation(form, entry.headword, entry.pos)
              THEN PluralEntry(entry, form) ELSE Null
         [] kind = "masculine" ->
              IF entry.gender = <<"m">> THEN PluralEntry(entry, form) ELSE Null

\* for (const indexEntry of indexEntries) { entry = await fetch...(...);
\* if (...) entries.push(entry); }
RECURSIVE CollectEntries(_, _, _, _, _, _, _)
CollectEntries(this, indexEntries, i, io, backup, kind, form) ==
  IF i > Len(indexEntries) THEN [val |-> <<>>, io |-> io]
  ELSE LET \* entries.push(e) when the loop's condition accepts it, before the rest
           PushedBefore(e, rest) ==
             [val |-> (IF e # Null THEN <<e>> ELSE <<>>) \o rest.val, io |-> rest.io]
           \* f is the read of indexEntries[i]
           CollectFrom(f) ==
             PushedBefore(Pushed(kind, form, f.val),
                          CollectEntries(this, indexEntries, i + 1, f.io,
                                         backup, kind, form))
       IN CollectFrom(IF backup
                      THEN fetchBackupEntry(this, indexEntries[i].offset,
                                            indexEntries[i].length, io, kind)
                      ELSE fetchEntry(this, indexEntries[i].offset,
                                      indexEntries[i].length, io, kind))

\* for (const candidate of candidates) { ...; if (entries.length > 0) return entries; }
RECURSIVE CollectCandidates(_, _, _, _, _, _, _)
CollectCandidates(this, candidates, i, io, backup, kind, form) ==
  IF i > Len(candidates) THEN [val |-> <<>>, io |-> io]
  ELSE LET \* r holds the entries collected for candidates[i]
           CollectedOrNext(r) ==
             IF Len(r.val) > 0 THEN r
             ELSE CollectCandidates(this, candidates, i + 1, r.io, backup, kind, form)
       IN CollectedOrNext(
            CollectEntries(this,
                           IF backup THEN binarySearchAllBackup(this, candidates[i])
                           ELSE binarySearchAll(this, candidates[i]),
                           1, io, backup, kind, form))

\* "Try plural-to-singular heuristics"; exact holds the exact matches
PluralAll(this, normalizedWord, exact, backup) ==
  IF Len(exact.val) > 0 THEN exact
  ELSE CollectCandidates(this, getPluralCandidates(normalizedWord), 1,
                         exact.io, backup, "plural", normalizedWord)

\* "Try feminine-to-masculine heuristics"; plural holds the entries so far
FeminineAll(this, normalizedWord, plural, backup) ==
  IF Len(plural.val) > 0 THEN plural
  ELSE CollectCandidates(this, getFeminineCandidates(normalizedWord), 1,
                         plural.io, backup, "masculine", normalizedWord)

\* the cascade shared by lookupAll (on the primary index) and lookupAllBackup:
\* exact match, plural heuristics, feminine heuristics
AllCascade(this, normalizedWord, io, backup) ==
  FeminineAll(this, normalizedWord,
    PluralAll(this, normalizedWord,
      CollectCandidates(this, <<normalizedWord>>, 1, io, backup, "exact",
                        normalizedWord),
      backup),
    backup)

lookupAllBackup(this, normalizedWord, io) ==
  IF ~this.backupIndexLoaded THEN [val |-> <<>>, io |-> io]
  ELSE AllCascade(this, normalizedWord, io, TRUE)

\* backupEntries.forEach(entry => { entry.isBackup = true; entry.backupLanguage = ... })
MarkBackup(this, entries) ==
  [i \in 1..Len(entries) |->
     SetField(SetField(entries[i], "isBackup", TRUE),
              "backupLanguage", this.currentLanguage)]

\* UseBackup without the test of the target language
UseBackupWhenLoaded(this) == this.backupIndexLoaded

\* lookupAll: if (this.currentLanguage !== 'eng' && this.backupIndexLoaded)
UseBackup(this) == this.currentLanguage # "eng" /\ this.backupIndexLoaded

RECURSIVE lookupAll(_, _, _, _)
\* lookupAll, after the contraction fallback; d is its result
AfterContractionAll(this, normalizedWord, d) ==
  LET \* return backupEntries; b holds the entries of lookupAllBackup
      WithBackup(b) == Ret(MarkBackup(this, b.val), b.io)
  IN IF d.threw THEN Throw(d.io)
     ELSE IF Len(d.val) > 0 THEN Ret(d.val, d.io)
     ELSE IF UseBackup(this)
     THEN WithBackup(lookupAllBackup(this, normalizedWord, d.io))
     ELSE Ret(<<>>, d.io)

\* AfterPrimary with the backup lookup of the whole word ahead of the
\* contraction fallback
AfterPrimaryBackupFirst(this, normalizedWord, followingText, primary) ==
  LET WholeWord(b) ==
        IF Len(b.val) > 0 THEN Ret(MarkBackup(this, b.val), b.io)
        ELSE IF tryRemoveContraction(normalizedWord) # Null
        THEN AfterContractionAll(this, normalizedWord,
               lookupAll(this, tryRemoveContraction(normalizedWord).word,
                         followingText, b.io))
        ELSE Ret(<<>>, b.io)
  IN IF Len(primary.val) > 0 THEN Ret(primary.val, primary.io)
     ELSE IF UseBackup(this)
     THEN WholeWord(lookupAllBackup(this, normalizedWord, primary.io))
     ELSE WholeWord(Ret(<<>>, primary.io))

\* lookupAll, after the cascade on the primary index; primary is its result
AfterPrimary(this, normalizedWord, followingText, primary) ==
  LET \* "If still not found, try removing contractions"
      ViaContractionAll(contractionResult) ==
        IF contractionResult # Null
        THEN lookupAll(this, contractionResult.word, followingText, primary.io)
        ELSE Ret(<<>>, primary.io)
  IN IF Len(primary.val) > 0 THEN Ret(primary.val, primary.io)
     ELSE AfterContractionAll(this, normalizedWord,
            ViaContractionAll(tryRemoveContraction(normalizedWord)))

lookupAllFromExact(this, normalizedWord, followingText, io) ==
  AfterPrimary(this, normalizedWord, followingText,
               AllCascade(this, normalizedWord, io, FALSE))

\* lookupAll, if (multiWordEntry) return [multiWordEntry]; multi is the result
\* of the multi-word step
AfterMultiWordAll(this, normalizedWord, followingText, multi) ==
  IF multi.threw THEN Throw(multi.io)
  ELSE IF multi.val # Null THEN Ret(<<multi.val>>, multi.io)
  ELSE lookupAllFromExact(this, normalizedWord, followingText, multi.io)

\* lookupAll, from const normalizedWord = ...
LookupAllWord(this, normalizedWord, followingText, io) ==
  AfterMultiWordAll(this, normalizedWord, followingText,
                    MultiWord(this, normalizedWord, followingText, io))

\* lookupAll, after the index load; this1 is the dictionary after it
LookupAllLoaded(this1, word, followingText, io) ==
  IF ~this1.indexLoaded THEN Out(Ret(<<>>, io), this1)
  ELSE Out(LookupAllWord(this1, normalizeWord(word), followingText, io), this1)

lookupAll(this, word, followingText, io) ==
  LookupAllLoaded(Loaded(this, io.loadOk), word, followingText, io)

\* exists(word): the value returned and the dictionary object after the call
exists(this, word, loadOk) ==
  LET \* after the index load; this1 is the dictionary after it
      Found(this1) == [val |-> binarySearch(this1, word) # Null, this |-> this1]
  IN Found(Loaded(this, loadOk))

\* init(language); each load may fail
init(this, language, okIndex, okConjugation, okBackup) ==
  LET \* if (this.currentLanguage !== 'eng') await this.loadBackupIndex()
      WithBackupIndex(this3) ==
        IF this3.currentLanguage # "eng" THEN loadBackupIndex(this3, okBackup)
        ELSE this3
  IN WithBackupIndex(
       loadConjugationIndex(
         loadIndex([this EXCEPT !.currentLanguage =
                                  IF language = "" THEN "eng" ELSE language],
                   okIndex),
         okConjugation))

\* changeLanguage without the comparison with the current language
changeLanguageReload(this, language, okIndex, okBackup) ==
  LET BackupFor(this2) ==
        IF language # "eng"
        THEN IF ~this2.backupIndexLoaded THEN loadBackupIndex(this2, okBackup)
             ELSE this2
        ELSE [this2 EXCEPT !.backupIndexCache = NullCache,
                           !.backupIndexLoaded = FALSE]
  IN BackupFor(loadIndex([this EXCEPT !.currentLanguage = language,
                                      !.indexCache = NullCache,
                                      !.indexLoaded = FALSE],
                         okIndex))

\* changeLanguage that leaves the backup index alone when the target is English
changeLanguageKeepsBackup(this, language, okIndex, okBackup) ==
  LET BackupFor(this2) ==
        IF language # "eng" /\ ~this2.backupIndexLoaded
        THEN loadBackupIndex(this2, okBackup)
        ELSE this2
  IN IF language # this.currentLanguage
     THEN BackupFor(loadIndex([this EXCEPT !.currentLanguage = language,
                                           !.indexCache = NullCache,
                                           !.indexLoaded = FALSE],
                              okIndex))
     ELSE this

changeLanguage(this, language, okIndex, okBackup) ==
  LET \* after the reload of the index: load the backup index when the new
      \* language is not English and it is not loaded, clear it for English
      BackupFor(this2) ==
        IF language # "eng"
        THEN IF ~this2.backupIndexLoaded THEN loadBackupIndex(this2, okBackup)
             ELSE this2
        ELSE [this2 EXCEPT !.backupIndexCache = NullCache,
                           !.backupIndexLoaded = FALSE]
  IN IF language # this.currentLanguage
     THEN BackupFor(loadIndex([this EXCEPT !.currentLanguage = language,
                                           !.indexCache = NullCache,
                                           !.indexLoaded = FALSE],
                              okIndex))
     ELSE this

(***************************************************************************)
(* The calls made on the dictionary: words and following texts             *)
(***************************************************************************)
\* the words looked up
Words ==
  [pomme |-> <<"p","o","m","m","e">>,
   Pomme |-> <<"P","o","m","m","e">>,
   EST |-> <<"E","S","T">>,
   est |-> <<"e","s","t">>,
   baux |-> <<"b","a","u","x">>,
   belles |-> <<"b","e","l","l","e","s">>,
   bonne |-> <<"b","o","n","n","e">>,
   lis |-> <<"l","i","s">>,
   lire |-> <<"l","i","r","e">>,
   bal |-> <<"b","a","l">>,
   portes |-> <<"p","o","r","t","e","s">>,
   porte |-> <<"p","o","r","t","e">>,
   l_amour_ascii |-> <<"l","'","a","m","o","u","r">>,
   amours |-> <<"a","m","o","u","r","s">>,
   xyz |-> <<"x","y","z">>,
   d_l_amour |-> <<"d","rsquo","l","rsquo","a","m","o","u","r">>,
   l_lis |-> <<"l","rsquo","l","i","s">>,
   qu_est |-> <<"q","u","rsquo","e","s","t">>]

\* the texts that follow the word on the page
Following ==
  [de_terre_rouge |-> <<"d","e"," ","t","e","r","r","e"," ","r","o","u","g","e">>,
   De_Terre |-> <<"D","e"," ","T","e","r","r","e">>,
   sud |-> <<"s","u","d">>,
   de |-> <<"d","e">>]

Q(word, followingText) == [word |-> word, followingText |-> followingText]

Queries ==
  { Q(Words.pomme, <<>>), Q(Words.pomme, Following.de_terre_rouge), Q(Words.pomme, Following.De_Terre),
    Q(Words.pomme, Following.de), Q(Words.Pomme, Following.de_terre_rouge),
    Q(Words.EST, Following.sud), Q(Words.est, Following.sud),
    Q(Words.baux, <<>>), Q(Words.belles, <<>>), Q(Words.bonne, <<>>), Q(Words.amours, <<>>),
    Q(Words.lis, <<>>), Q(Words.lire, <<>>), Q(Words.bal, <<>>), Q(Words.porte, <<>>), Q(Words.portes, <<>>),
    Q(Words.l_amour_ascii, <<>>), Q(Words.d_l_amour, <<>>), Q(Words.l_lis, <<>>), Q(Words.qu_est, <<>>),
    Q(Words.xyz, <<>>) }

(***************************************************************************)
(* The dictionary object as a state machine.  An operation runs from its   *)
(* call to its return as one step; Return hands the result to the caller.  *)
(***************************************************************************)
This ==
  [currentLanguage |-> currentLanguage,
   indexCache |-> indexCache, indexLoaded |-> indexLoaded,
   conjugationIndexCache |-> conjugationIndexCache,
   conjugationIndexLoaded |-> conjugationIndexLoaded,
   backupIndexCache |-> backupIndexCache, backupIndexLoaded |-> backupIndexLoaded]

Becomes(this) ==
  /\ currentLanguage' = this.currentLanguage
  /\ indexCache' = this.indexCache
  /\ indexLoaded' = this.indexLoaded
  /\ conjugationIndexCache' = this.conjugationIndexCache
  /\ conjugationIndexLoaded' = this.conjugationIndexLoaded
  /\ backupIndexCache' = this.backupIndexCache
  /\ backupIndexLoaded' = this.backupIndexLoaded

\* the number of leading ranged reads of a call that may fail
MaxFetch == 3

FailSets == SUBSET (1..MaxFetch)

Idle == [op |-> "idle"]

\* the outcomes of the index load a call makes when the index is not loaded
LoadOutcomes == IF indexLoaded THEN {TRUE} ELSE BOOLEAN

\* constructor
Init ==
  /\ currentLanguage = "eng"
  /\ indexCache = NullCache
  /\ indexLoaded = FALSE
  /\ conjugationIndexCache = NullCache
  /\ conjugationIndexLoaded = FALSE
  /\ backupIndexCache = NullCache
  /\ backupIndexLoaded = FALSE
  /\ call = Idle

CallInit ==
  \E language \in Languages \cup {""}, okIndex \in BOOLEAN,
     okConjugation \in BOOLEAN, okBackup \in BOOLEAN :
    /\ call = Idle
    /\ Becomes(init(This, language, okIndex, okConjugation, okBackup))
    /\ call' = [op |-> "init", language |-> language, threw |-> FALSE]

CallChangeLanguage ==
  \E language \in Languages, okIndex \in BOOLEAN, okBackup \in BOOLEAN :
    /\ call = Idle
    /\ Becomes(changeLanguage(This, language, okIndex, okBackup))
    /\ call' = [op |-> "changeLanguage", language |-> language, threw |-> FALSE]

\* the call returns r: the dictionary becomes r.this and the caller gets the
\* value or the exception
Returns(op, q, r) ==
  /\ Becomes(r.this)
  /\ call' = [op |-> op, word |-> q.word, followingText |-> q.followingText,
              val |-> r.val, threw |-> r.threw, log |-> r.io.log]

CallLookup ==
  \E q \in Queries, fails \in FailSets, loadOk \in LoadOutcomes :
    /\ call = Idle
    /\ Returns("lookup", q,
               lookup(This, q.word, q.followingText, NewIO(fails, loadOk)))

CallLookupAll ==
  \E q \in Queries, fails \in FailSets, loadOk \in LoadOutcomes :
    /\ call = Idle
    /\ Returns("lookupAll", q,
               lookupAll(This, q.word, q.followingText, NewIO(fails, loadOk)))

CallLookupConjugation ==
  \E q \in Queries, fails \in FailSets :
    LET \* the call returns r and leaves the dictionary alone
        ReturnsConjugation(r) ==
          /\ UNCHANGED dict
          /\ call' = [op |-> "lookupConjugationWithHeuristics", word |-> q.word,
                      val |-> r.val, threw |-> FALSE, log |-> r.io.log]
    IN /\ call = Idle
       /\ ReturnsConjugation(
            lookupConjugationWithHeuristics(This, q.word, NewIO(fails, TRUE)))

\* exists returns r
ReturnsExists(word, r) ==
  /\ Becomes(r.this)
  /\ call' = [op |-> "exists", word |-> word, val |-> r.val, threw |-> FALSE]

CallExists ==
  \E q \in Queries, loadOk \in LoadOutcomes :
    /\ call = Idle
    /\ ReturnsExists(q.word, exists(This, q.word, loadOk))

Return ==
  /\ call # Idle
  /\ call' = Idle
  /\ UNCHANGED dict

Next ==
  \/ CallInit
  \/ CallChangeLanguage
  \/ CallLookup
  \/ CallLookupAll
  \/ CallLookupConjugation
  \/ CallExists
  \/ Return

Spec == Init /\ [][Next]_vars

(***************************************************************************)
(* The binary searches on every sorted index.  SpecSearch starts from any  *)
(* primary index sorted ascending by headword (with duplicates) and        *)
(* applies binarySearchAll and exists to every term.                       *)
(***************************************************************************)
\* the longest index SpecSearch starts from
MaxIndexLen == 4

SearchHeadwords == {Words.EST, <<"b","a","l">>, Words.est, Words.lis, Words.pomme}

SearchTerms ==
  SearchHeadwords \cup {<<"E","s","t">>, <<"B","A","L">>, <<"L","i","s">>, Words.xyz}

\* headword < headword' never decreases along the index
IsSorted(cache) ==
  \A i, j \in 1..Len(cache) : i < j => ~StrLess(cache[j].headword, cache[i].headword)

SortedIndexes ==
  { cache \in { [i \in 1..Len(hs) |->
                  [headword |-> hs[i], offset |-> 10 * (i - 1), length |-> 10]] :
                hs \in UNION { [1..n -> SearchHeadwords] : n \in 0..MaxIndexLen } } :
      IsSorted(cache) }

InitSearch ==
  /\ currentLanguage = "eng"
  /\ indexCache \in SortedIndexes \cup {NullCache}
  /\ indexLoaded = (indexCache # NullCache)
  /\ conjugationIndexCache = NullCache
  /\ conjugationIndexLoaded = FALSE
  /\ backupIndexCache = NullCache
  /\ backupIndexLoaded = FALSE
  /\ call = Idle

CallBinarySearchAll ==
  \E term \in SearchTerms :
    /\ call = Idle
    /\ UNCHANGED dict
    /\ call' = [op |-> "binarySearchAll", word |-> term,
                val |-> binarySearchAll(This, term), threw |-> FALSE]

CallExistsTerm ==
  \E term \in SearchTerms, loadOk \in LoadOutcomes :
    /\ call = Idle
    /\ ReturnsExists(term, exists(This, term, loadOk))

NextSearch ==
  \/ CallBinarySearchAll
  \/ CallExistsTerm
  \/ Return

SpecSearch == InitSearch /\ [][NextSearch]_vars

\* the positions of the index whose headword is the search term of a word
Matches(cache, word) ==
  IF cache = NullCache THEN {}
  ELSE {i \in 1..Len(cache) : cache[i].headword = getSearchTerm(word)}

\* C1: on a sorted primary index binarySearchAll returns exactly the entries
\* whose headword equals getSearchTerm(term): they form one contiguous run of the
\* index, the result is that run in index order, and it is empty when nothing
\* matches or the index is null or empty.
C1_FindAllMaximalRun ==
  call.op = "binarySearchAll" =>
    LET M == Matches(indexCache, call.word)
    IN /\ M = {} => call.val = <<>>
       /\ M # {} =>
            LET lo == CHOOSE i \in M : \A j \in M : i <= j
                hi == CHOOSE i \in M : \A j \in M : j <= i
            IN /\ M = lo..hi
               /\ call.val = SubSeq(indexCache, lo, hi)

\* a run of two or more duplicates with other entries on both sides
C1_Witness ==
  /\ call.op = "binarySearchAll"
  /\ Len(call.val) >= 2
  /\ indexCache # NullCache
  /\ Len(indexCache) >= Len(call.val) + 2
  /\ indexCache[1].headword # getSearchTerm(call.word)
  /\ indexCache[Len(indexCache)].headword # getSearchTerm(call.word)

\* C2: exists(word) is true exactly when the loaded primary index holds an
\* entry whose headword equals getSearchTerm(word).
C2_ExistsIffPresent ==
  call.op = "exists" => (call.val <=> Matches(indexCache, call.word) # {})

\* a capitalised word found under its lowercased headword
C2_Witness ==
  /\ call.op = "exists"
  /\ call.val
  /\ call.word # getSearchTerm(call.word)
  /\ indexCache # NullCache
  /\ Len(indexCache) >= 3

(***************************************************************************)
(* The lookup cascade                                                      *)
(***************************************************************************)
\* the entry stored on the line of an index row of the primary resource
EntryOf(row) ==
  parseEntry(RangeRead(U8File(currentLanguage), row.offset, row.length))

\* the completed call is op on a loaded primary index and none of its ranged
\* reads failed
Completed(op) ==
  /\ call.op = op
  /\ indexLoaded
  /\ ~call.threw
  /\ \A i \in 1..Len(call.log) : ~call.log[i].failed

\* the whitespace-separated tokens of a text
Tokens(s) == SelectSeq(splitSpaces(s), NonEmpty)

\* the index positions of the multi-word headwords that start with the
\* normalized word of the call and continue with the leading tokens of its
\* following text
MultiWordMatches ==
  {i \in 1..Len(indexCache) :
     LET hw == Tokens(indexCache[i].headword)
         following == Tokens(call.followingText)
     IN /\ Len(hw) >= 2
        /\ hw[1] = normalizeWord(call.word)
        /\ Len(hw) - 1 <= Len(following)
        /\ \A k \in 2..Len(hw) : hw[k] = following[k - 1]}

\* C3: when the index holds multi-word headwords that start with the normalized
\* word and continue with the leading tokens of followingText, lookup returns
\* the fetched entry of the one with the most tokens (the first in index order
\* on a tie) with matchedWords = its token count, whatever the single word
\* would yield.
C3_MultiWordPrecedence ==
  (Completed("lookup") /\ MultiWordMatches # {}) =>
    LET M == MultiWordMatches
        count(i) == Len(Tokens(indexCache[i].headword))
        longest == {i \in M : \A j \in M : count(j) <= count(i)}
        best == CHOOSE i \in longest : \A j \in longest : i <= j
    IN call.val = SetField(EntryOf(indexCache[best]), "matchedWords", count(best))

\* the normalized word of the call
Word == normalizeWord(call.word)

\* the multi-word stage of the call returned nothing
NoMultiWordHit ==
  \A i \in 1..Len(call.log) : call.log[i].site = "multiWord" => call.log[i].val = Null

\* a lookup on a loaded index whose word carries no contraction, so that every
\* read of the log belongs to the stages of this word
PlainLookup ==
  /\ call.op = "lookup"
  /\ indexLoaded
  /\ tryRemoveContraction(Word) = Null
  /\ NoMultiWordHit

\* the index rows under the search term of a headword, in index order
RowsOf(headword) ==
  LET IsRow(row) == row.headword = getSearchTerm(headword)
  IN SelectSeq(indexCache, IsRow)

\* the rows of the candidates in candidate order, each candidate's in index order
RECURSIVE RowsOfAll(_)
RowsOfAll(candidates) ==
  IF candidates = <<>> THEN <<>>
  ELSE RowsOf(Head(candidates)) \o RowsOfAll(Tail(candidates))

\* the reads the call made at a site, in the order it made them
ReadsAt(site) ==
  LET AtSite(read) == read.site = site
  IN SelectSeq(call.log, AtSite)

\* reads follow the rows one by one from the first
FollowsRows(reads, rows) ==
  /\ Len(reads) <= Len(rows)
  /\ \A i \in 1..Len(reads) :
       reads[i].offset = rows[i].offset /\ reads[i].length = rows[i].length

PluralHit(read) ==
  /\ read.val # Null
  /\ isValidPluralTransformation(Word, read.val.headword, read.val.pos)

\* C4: the plural heuristic reads nothing when the exact match hit; otherwise it
\* fetches the index rows of the plural candidates in candidate order and index
\* order, stops at the first fetched entry that is a valid plural base (nothing
\* is read after it) and returns that entry with searchedForm = the normalized
\* word, the note 'plural of <base headword>' and no pronunciation.
C4_PluralFirstValidHit ==
  PlainLookup =>
    LET reads == ReadsAt("plural")
        rows == RowsOfAll(getPluralCandidates(Word))
        n == Len(reads)
    IN IF RowsOf(Word) # <<>>
       THEN reads = <<>> /\ ReadsAt("pluralFeminine") = <<>>
       ELSE /\ FollowsRows(reads, rows)
            /\ \A i \in 1..(n - 1) : ~PluralHit(reads[i])
            /\ (n = 0 \/ ~PluralHit(reads[n])) => n = Len(rows)
            /\ (n > 0 /\ PluralHit(reads[n])) =>
                 /\ call.log[Len(call.log)] = reads[n]
                 /\ ~call.threw
                 /\ call.val.headword = reads[n].val.headword
                 /\ call.val.translations = reads[n].val.translations
                 /\ call.val.searchedForm = Word
                 /\ call.val.inflectionNote.text = "plural of"
                 /\ call.val.inflectionNote.base = reads[n].val.headword
                 /\ call.val.pronunciation = NullStr

\* the second entry of the first candidate validates after the first one was
\* rejected, and the rows of the later candidates are left unread
C4_Witness ==
  /\ PlainLookup
  /\ RowsOf(Word) = <<>>
  /\ Len(ReadsAt("plural")) = 2
  /\ ReadsAt("plural")[1].val # Null
  /\ PluralHit(ReadsAt("plural")[2])
  /\ Len(RowsOfAll(getPluralCandidates(Word))) > 2
  /\ call.val.inflectionNote.text = "plural of"

FeminineHit(read) ==
  /\ read.val # Null
  /\ isValidFeminineTransformation(Word, read.val.headword, read.val.pos,
                                   read.val.gender)

\* the plural stage of the call returned an entry: a valid plural base, or the
\* masculine of a plural candidate
PluralStageHit ==
  \E i \in 1..Len(call.log) :
    LET read == call.log[i]
    IN \/ read.site = "plural" /\ PluralHit(read)
       \/ /\ read.site = "pluralFeminine"
          /\ read.val # Null
          /\ \E k \in 1..Len(getPluralCandidates(Word)) :
               isValidFeminineTransformation(getPluralCandidates(Word)[k],
                                             read.val.headword, read.val.pos,
                                             read.val.gender)

\* C5: the feminine heuristic reads nothing when the exact match or the plural
\* heuristic hit; otherwise it fetches the index rows of the feminine candidates
\* in candidate order and index order, stops at the first fetched entry that is
\* a valid masculine base and returns it with gender 'f', the note
\* 'feminine of <base headword>' and no pronunciation.
C5_FeminineFirstValidHit ==
  PlainLookup =>
    LET reads == ReadsAt("feminine")
        rows == RowsOfAll(getFeminineCandidates(Word))
        n == Len(reads)
    IN IF RowsOf(Word) # <<>> \/ PluralStageHit
       THEN reads = <<>>
       ELSE /\ FollowsRows(reads, rows)
            /\ \A i \in 1..(n - 1) : ~FeminineHit(reads[i])
            /\ (n = 0 \/ ~FeminineHit(reads[n])) => n = Len(rows)
            /\ (n > 0 /\ FeminineHit(reads[n])) =>
                 /\ call.log[Len(call.log)] = reads[n]
                 /\ ~call.threw
                 /\ call.val.headword = reads[n].val.headword
                 /\ call.val.translations = reads[n].val.translations
                 /\ call.val.searchedForm = Word
                 /\ call.val.gender = <<"f">>
                 /\ call.val.inflectionNote.text = "feminine of"
                 /\ call.val.inflectionNote.base = reads[n].val.headword
                 /\ call.val.pronunciation = NullStr

\* a masculine entry with a pronunciation validates after a feminine noun of the
\* same headword was rejected
C5_Witness ==
  /\ PlainLookup
  /\ Len(ReadsAt("feminine")) = 2
  /\ ReadsAt("feminine")[1].val # Null
  /\ FeminineHit(ReadsAt("feminine")[2])
  /\ ReadsAt("feminine")[2].val.gender = <<"m">>
  /\ ReadsAt("feminine")[2].val.pronunciation # <<>>
  /\ call.val.gender = <<"f">>

\* the exact, plural or feminine stage of the call found a bilingual entry
BilingualFound ==
  \/ RowsOf(Word) # <<>>
  \/ PluralStageHit
  \/ \E i \in 1..Len(call.log) :
       call.log[i].site = "feminine" /\ FeminineHit(call.log[i])

\* the conjugation table lists the normalized word, and the index holds its
\* infinitive
ConjugationTableHit ==
  /\ conjugationIndexLoaded
  /\ conjugationIndexCache # NullCache
  /\ \E i \in 1..Len(conjugationIndexCache) :
       /\ conjugationIndexCache[i].conjugatedForm = toLowerCase(Word)
       /\ LET found == fetchConjugationEntries(This, conjugationIndexCache[i].offset,
                                               Word, NewIO({}, TRUE)).val
          IN found # Null /\ RowsOf(found.infinitive) # <<>>

\* C6: a lookup of a non-acronym word that passes the multi-word stage always
\* reads the conjugation table when it lists the word, and when the exact,
\* plural or feminine stage also found a bilingual entry the result carries
\* both the conjugation and the bilingual entry.
C6_ConjugationAlwaysChecked ==
  (/\ Completed("lookup")
   /\ tryRemoveContraction(Word) = Null
   /\ NoMultiWordHit
   /\ ~isAcronym(Word)
   /\ ConjugationTableHit) =>
     /\ ReadsAt("conjugation") # <<>>
     /\ BilingualFound =>
          /\ call.val # Null
          /\ HasField(call.val, "conjugationInfo")
          /\ HasField(call.val, "alternateDefinition")

\* the conjugation entry of the normalized word: the infinitive entry augmented
\* with the conjugation, or null
ConjugationEntry == lookupConjugationWithHeuristics(This, Word, NewIO({}, TRUE)).val

\* C7: when a lookup finds both a bilingual entry (exact or heuristic) and a
\* conjugation entry it returns the conjugation entry with the bilingual entry
\* attached as alternateDefinition; when it finds exactly one of the two it
\* returns that one.
C7_ConjugationPrimary ==
  (/\ Completed("lookup")
   /\ tryRemoveContraction(Word) = Null
   /\ NoMultiWordHit) =>
     /\ (BilingualFound /\ ConjugationEntry # Null) =>
          /\ call.val # Null
          /\ HasField(call.val, "conjugationInfo")
          /\ call.val.headword = ConjugationEntry.headword
          /\ call.val.conjugationInfo = ConjugationEntry.conjugationInfo
          /\ HasField(call.val, "alternateDefinition")
     /\ (BilingualFound /\ ConjugationEntry = Null) =>
          /\ call.val # Null
          /\ ~HasField(call.val, "conjugationInfo")
          /\ ~HasField(call.val, "alternateDefinition")
     /\ (~BilingualFound /\ ConjugationEntry # Null) => call.val = ConjugationEntry

\* a read of one of the rows
ReadOf(read, rows) ==
  \E k \in 1..Len(rows) :
    rows[k].offset = read.offset /\ rows[k].length = read.length

\* the multi-word, exact, plural, feminine or conjugation stage of the call
\* produced an entry for the word w (the reads of the stages of w are those of
\* the rows of its own candidates)
StagesFound(w) ==
  \/ RowsOf(w) # <<>>
  \/ lookupConjugationWithHeuristics(This, w, NewIO({}, TRUE)).val # Null
  \/ \E i \in 1..Len(call.log) :
       LET read == call.log[i]
           singulars == getPluralCandidates(w)
       IN /\ read.val # Null
          /\ \/ /\ read.site = "multiWord"
                /\ Tokens(read.val.headword)[1] = toLowerCase(w)
             \/ /\ read.site = "plural"
                /\ ReadOf(read, RowsOfAll(singulars))
                /\ isValidPluralTransformation(w, read.val.headword, read.val.pos)
             \/ /\ read.site = "pluralFeminine"
                /\ \E k \in 1..Len(singulars) :
                     /\ ReadOf(read, RowsOfAll(getFeminineCandidates(singulars[k])))
                     /\ isValidFeminineTransformation(singulars[k], read.val.headword,
                                                      read.val.pos, read.val.gender)
             \/ /\ read.site = "feminine"
                /\ ReadOf(read, RowsOfAll(getFeminineCandidates(w)))
                /\ isValidFeminineTransformation(w, read.val.headword, read.val.pos,
                                                 read.val.gender)

\* C8: lookup returns an entry annotated with contractionPrefix only when the
\* multi-word, exact, plural, feminine and conjugation stages of the normalized
\* word produced nothing and the word starts with a contraction; it then returns
\* what the whole lookup of the remainder returns, annotated with
\* contractionPrefix = the stripped prefix and originalSearched = the normalized
\* word, or nothing when the remainder yields nothing.
C8_ContractionFallback ==
  Completed("lookup") =>
    LET contractionResult == tryRemoveContraction(Word)
        taken == contractionResult # Null /\ ~StagesFound(Word)
    IN /\ HasField(call.val, "contractionPrefix") => taken
       /\ taken =>
            LET decontractedEntry ==
                  lookup(This, contractionResult.word, call.followingText,
                         NewIO({}, TRUE)).val
            IN IF decontractedEntry = Null THEN call.val = Null
               ELSE /\ HasField(call.val, "contractionPrefix")
                    /\ HasField(call.val, "originalSearched")
                    /\ call.val.contractionPrefix = contractionResult.prefix
                    /\ call.val.originalSearched = Word
                    /\ \A k \in DOMAIN decontractedEntry \
                                  {"contractionPrefix", "originalSearched"} :
                         HasField(call.val, k) /\ call.val[k] = decontractedEntry[k]

\* a word written with a straight apostrophe found under its remainder, which
\* the index holds
C8_Witness ==
  /\ Completed("lookup")
  /\ HasField(call.val, "contractionPrefix")
  /\ call.val.contractionPrefix = <<"l", "rsquo">>
  /\ call.val.originalSearched # call.word
  /\ call.val.headword = tryRemoveContraction(Word).word
  /\ RowsOf(call.val.headword) # <<>>

(***************************************************************************)
(* lookupAll and the backup index                                          *)
(***************************************************************************)
\* the positions of the log that read the backup resource, and the others
BackupReads == {i \in 1..Len(call.log) : call.log[i].resource = "backup"}

PrimaryReads == {i \in 1..Len(call.log) : call.log[i].resource # "backup"}

\* the entry was built from the line one of the reads fetched
FromRead(entry, reads) ==
  \E i \in reads :
    /\ call.log[i].val # Null
    /\ call.log[i].val.headword = entry.headword
    /\ call.log[i].val.pos = entry.pos
    /\ call.log[i].val.translations = entry.translations

\* C9: lookupAll reads the backup index only when the target language is not
\* 'eng', after every read of the primary index, and when the stages on the
\* primary index found nothing; every entry it returns from the backup carries
\* isBackup = TRUE and backupLanguage = the target language, no entry from the
\* primary index carries isBackup, and with target 'eng' nothing is marked.
C9_BackupOnlyAfterPrimary ==
  (call.op = "lookupAll" /\ ~call.threw) =>
    /\ BackupReads # {} => currentLanguage # "eng" /\ backupIndexLoaded
    /\ \A i \in BackupReads, j \in PrimaryReads : j < i
    /\ (BackupReads # {} /\ \A j \in PrimaryReads : ~call.log[j].failed) =>
         AllCascade(This, Word, NewIO({}, TRUE), FALSE).val = <<>>
    /\ \A k \in 1..Len(call.val) :
         IF HasField(call.val[k], "isBackup")
         THEN /\ call.val[k].isBackup = TRUE
              /\ call.val[k].backupLanguage = currentLanguage
              /\ currentLanguage # "eng"
              /\ FromRead(call.val[k], BackupReads)
         ELSE /\ BackupReads = {}
              /\ FromRead(call.val[k], PrimaryReads)

\* with a non-English target, a word the primary index lacks comes back from the
\* backup, marked
C9_Witness ==
  /\ call.op = "lookupAll"
  /\ currentLanguage = "deu"
  /\ indexLoaded
  /\ RowsOf(Word) = <<>>
  /\ Len(call.val) > 0
  /\ HasField(call.val[1], "isBackup")
  /\ call.val[1].backupLanguage = "deu"

(***************************************************************************)
(* Failure handling                                                        *)
(***************************************************************************)
\* C10: no call of init, changeLanguage, lookup, lookupAll,
\* lookupConjugationWithHeuristics or exists ends with an exception, whichever
\* index loads and ranged reads fail during it.
C10_NoExceptionEscapes == call # Idle => ~call.threw

(***************************************************************************)
(* One init, then changeLanguage calls, every load succeeding; lookups may *)
(* run in between                                                          *)
(***************************************************************************)
\* init has run: with every load succeeding only init loads the conjugation
\* index, and nothing unloads it
Initialized == conjugationIndexLoaded

FirstInit ==
  \E language \in Languages \cup {""} :
    /\ call = Idle
    /\ ~Initialized
    /\ Becomes(init(This, language, TRUE, TRUE, TRUE))
    /\ call' = [op |-> "init", language |-> language, threw |-> FALSE]

ChangeLanguageLoaded ==
  \E language \in Languages :
    /\ call = Idle
    /\ Initialized
    /\ Becomes(changeLanguage(This, language, TRUE, TRUE))
    /\ call' = [op |-> "changeLanguage", language |-> language, threw |-> FALSE]

NextLanguage ==
  \/ FirstInit
  \/ ChangeLanguageLoaded
  \/ CallLookup
  \/ CallLookupAll
  \/ Return

SpecLanguage == Init /\ [][NextLanguage]_vars

(***************************************************************************)
(* The pure functions, applied to inputs drawn from bounded sets           *)
(***************************************************************************)
\* the writer of the bulk resources: backslash, newline, tab and carriage
\* return of a field value become a backslash followed by \, n, t, r
RECURSIVE escape(_)
escape(str) ==
  IF str = <<>> THEN <<>>
  ELSE (CASE Head(str) = "BSL" -> <<"BSL", "BSL">>
          [] Head(str) = "NL" -> <<"BSL", "n">>
          [] Head(str) = "TAB" -> <<"BSL", "t">>
          [] Head(str) = "CR" -> <<"BSL", "r">>
          [] OTHER -> <<Head(str)>>) \o escape(Tail(str))

\* the longest field value written
MaxFieldLen == 2

\* field values over a letter, the letter n and the four escaped characters
FieldValues ==
  UNION { [1..n -> {"a", "n", "BSL", "NL", "TAB", "CR"}] : n \in 0..MaxFieldLen }

\* parseEntry of the line the writer makes of six fields, one of them value
CallParseEntry ==
  \E value \in FieldValues, position \in 1..6 :
    LET fields == [i \in 1..6 |-> IF i = position THEN value ELSE <<"x">>]
    IN /\ call = Idle
       /\ UNCHANGED dict
       /\ call' = [op |-> "parseEntry", fields |-> fields,
                   val |-> parseEntry(LineText([i \in 1..6 |-> escape(fields[i])])),
                   threw |-> FALSE]

\* the longest word after the contraction prefix
MaxAcronymLen == 3

\* words of capitals, a lowercase letter and a digit, bare or after a
\* contraction prefix
AcronymWords ==
  { prefix \o rest :
      prefix \in {<<>>, <<"l", "rsquo">>, <<"q", "u", "rsquo">>, <<"x", "rsquo">>},
      rest \in UNION { [1..n -> {"E", "S", "t", "1"}] : n \in 0..MaxAcronymLen } }

CallGetSearchTerm ==
  \E word \in AcronymWords :
    /\ call = Idle
    /\ UNCHANGED dict
    /\ call' = [op |-> "getSearchTerm", word |-> word, acronym |-> isAcronym(word),
                val |-> getSearchTerm(word), threw |-> FALSE]

\* the longest stem before an ending
MaxStemLen == 2

\* stems of up to MaxStemLen letters, and the stem of "chevaux"
Stems ==
  UNION { [1..n -> {"b", "i", "e"}] : n \in 0..MaxStemLen } \cup {<<"c","h","e","v">>}

\* a stem and one of the plural endings, or an ending no rule knows
PluralWords ==
  { stem \o ending :
      stem \in Stems,
      ending \in { <<"e","a","u","x">>, <<"a","u","x">>, <<"e","u","x">>,
                   <<"i","e","u","x">>, <<"o","u","x">>, <<"s">>, <<"o","s">>,
                   <<"u","x">>, <<"x">>, <<"e">>, <<>> } }

CallGetPluralCandidates ==
  \E word \in PluralWords :
    /\ call = Idle
    /\ UNCHANGED dict
    /\ call' = [op |-> "getPluralCandidates", word |-> word,
                val |-> getPluralCandidates(word), threw |-> FALSE]

\* a stem and one of the feminine endings, or an ending no pattern knows, and
\* "heureuse"
FeminineWords ==
  { stem \o ending :
      stem \in Stems,
      ending \in { <<"i","e","n","n","e">>, <<"t","e","u","s","e">>, <<"e","u","s","e">>,
                   <<"r","i","c","e">>, <<"e_grave","r","e">>, <<"e","l","l","e">>,
                   <<"e","n","n","e">>, <<"o","n","n","e">>, <<"i","n","n","e">>,
                   <<"e","t","t","e">>, <<"v","e">>, <<"s","e">>, <<"q","u","e">>,
                   <<"c","h","e">>, <<"g","u","e">>, <<"e">>, <<"e_acute","e">>,
                   <<"s">>, <<"n">>, <<>> } }
  \cup {<<"h","e","u","r","e","u","s","e">>}

CallGetFeminineCandidates ==
  \E word \in FeminineWords :
    /\ call = Idle
    /\ UNCHANGED dict
    /\ call' = [op |-> "getFeminineCandidates", word |-> word,
                val |-> getFeminineCandidates(word), threw |-> FALSE]

\* isValidFeminineTransformation of a feminine word and one of its masculine
\* candidates or an unrelated word, for an entry with the pos and the gender
CallIsValidFeminineTransformation ==
  \E feminineForm \in FeminineWords,
     pos \in {<<>>, <<"n">>, <<"a","d","j">>, <<"v">>, <<" ","N">>},
     gender \in {<<>>, <<"m">>, <<"f">>, <<"M"," ">>} :
    \E masculineForm \in
         {getFeminineCandidates(feminineForm)[k] :
            k \in 1..Len(getFeminineCandidates(feminineForm))} \cup {<<"b","i">>} :
      /\ call = Idle
      /\ UNCHANGED dict
      /\ call' = [op |-> "isValidFeminineTransformation", word |-> feminineForm,
                  masculineForm |-> masculineForm, pos |-> pos, gender |-> gender,
                  val |-> isValidFeminineTransformation(feminineForm, masculineForm,
                                                        pos, gender),
                  threw |-> FALSE]

\* the most prefixes stacked before a word
MaxContractions == 2

\* tryRemoveContraction of up to MaxContractions prefixes (contractions and one
\* that is none) before a short remainder, and the conjugation lookup that
\* recurses on what it strips
CallTryRemoveContraction ==
  \E prefixes \in UNION { [1..n -> {<<"l","rsquo">>, <<"q","u","rsquo">>,
                                    <<"d","rsquo">>, <<"x","rsquo">>}] :
                          n \in 0..MaxContractions },
     rest \in {<<>>, <<"a">>, <<"a","m">>, <<"l">>, <<"q","u">>} :
    LET RECURSIVE Joined(_)
        Joined(ps) == IF ps = <<>> THEN rest ELSE Head(ps) \o Joined(Tail(ps))
    IN /\ call = Idle
       /\ UNCHANGED dict
       /\ call' = [op |-> "tryRemoveContraction", word |-> Joined(prefixes),
                   val |-> tryRemoveContraction(Joined(prefixes)),
                   conjugation |->
                     lookupConjugationWithHeuristics(This, Joined(prefixes),
                                                     NewIO({}, TRUE)).val,
                   threw |-> FALSE]

MaxTags == 3

\* formatTenseInfo(tenses, fullForm): the display text of the tense tags of a
\* conjugated form, with the person and number read off the pronoun that
\* starts fullForm
formatTenseInfo(tenses, fullForm) ==
  LET parts == split(tenses, ";")
      moods == << <<"i","n","d","i","c","a","t","i","v","e">>, <<"s","u","b","j","u","n","c",
            "t","i","v","e">>, <<"c","o","n","d","i","t","i","o","n","a","l">>, <<"i","m","p",
                  "e","r","a","t","i","v","e">>, <<"p","a","r","t","i","c","i","p","l","e">>,
                        <<"g","e","r","u","n","d">>, <<"i","n","f","i","n","i","t","i","v","e">> >>
      IsMood(part) == \E k \in 1..Len(moods) : moods[k] = toLowerCase(part)
      \* f.match(/^(a|b)\s/) for the alternatives alts
      Pronoun(f, alts) ==
        \E a \in alts : /\ startsWith(f, a)
                        /\ Len(f) > Len(a)
                        /\ IsSpace(f[Len(a) + 1])
      \* f.match(/^qu['']?(a|b)\s/)
      Qu(f, alts) ==
        /\ startsWith(f, <<"q","u">>)
        /\ \/ Pronoun(DropFirst(f, 2), alts)
           \/ /\ startsWith(f, <<"q","u","'">>)
              /\ Pronoun(DropFirst(f, 3), alts)
      \* f.match(/^que\s+(a|b)\s/)
      Que(f, alts) ==
        /\ Pronoun(f, {<<"q","u","e">>})
        /\ Pronoun(TrimLeft(DropFirst(f, 3)), alts)
      personNumber ==
        IF ~Truthy(fullForm) THEN <<>>
        ELSE IF startsWith(fullForm, <<"j","e"," ">>) THEN <<"1","s","t"," ","p","e","r","s",
              "o","n"," ","s","i","n","g","u","l","a","r">>
        ELSE IF startsWith(fullForm, <<"t","u"," ">>) THEN <<"2","n","d"," ","p","e","r","s",
              "o","n"," ","s","i","n","g","u","l","a","r">>
        ELSE IF Pronoun(fullForm, {<<"i","l">>, <<"e","l","l","e">>, <<"o","n">>}) THEN <<"3",
              "r","d"," ","p","e","r","s","o","n"," ","s","i","n","g","u","l","a","r">>
        ELSE IF startsWith(fullForm, <<"n","o","u","s"," ">>) THEN <<"1","s","t"," ","p","e",
              "r","s","o","n"," ","p","l","u","r","a","l">>
        ELSE IF startsWith(fullForm, <<"v","o","u","s"," ">>) THEN <<"2","n","d"," ","p","e",
              "r","s","o","n"," ","p","l","u","r","a","l">>
        ELSE IF Pronoun(fullForm, {<<"i","l","s">>, <<"e","l","l","e","s">>}) THEN <<"3","r",
              "d"," ","p","e","r","s","o","n"," ","p","l","u","r","a","l">>
        ELSE IF Qu(fullForm, {<<"i","l">>, <<"e","l","l","e">>, <<"o","n">>}) THEN <<"3","r",
              "d"," ","p","e","r","s","o","n"," ","s","i","n","g","u","l","a","r">>
        ELSE IF Qu(fullForm, {<<"i","l","s">>, <<"e","l","l","e","s">>}) THEN <<"3","r","d"," ",
              "p","e","r","s","o","n"," ","p","l","u","r","a","l">>
        ELSE IF Que(fullForm, {<<"j","e">>, <<"j","'">>}) THEN <<"1","s","t"," ","p","e","r",
              "s","o","n"," ","s","i","n","g","u","l","a","r">>
        ELSE IF Que(fullForm, {<<"t","u">>}) THEN <<"2","n","d"," ","p","e","r","s","o","n"," ",
              "s","i","n","g","u","l","a","r">>
        ELSE IF Que(fullForm, {<<"n","o","u","s">>}) THEN <<"1","s","t"," ","p","e","r","s","o",
              "n"," ","p","l","u","r","a","l">>
        ELSE IF Que(fullForm, {<<"v","o","u","s">>}) THEN <<"2","n","d"," ","p","e","r","s","o",
              "n"," ","p","l","u","r","a","l">>
        ELSE <<>>
      \* the loop over parts: st.currentMood and st.moodTenses after the
      \* first n parts
      RECURSIVE Grouped(_)
      Grouped(n) ==
        IF n = 0 THEN [currentMood |-> Null, moodTenses |-> << >>]
        ELSE LET st == Grouped(n - 1)
                 part == parts[n]
             IN IF IsMood(part)
                THEN [currentMood |-> part,
                      moodTenses |-> (part :> << >>) @@ st.moodTenses]
                ELSE IF st.currentMood # Null
                THEN [st EXCEPT !.moodTenses =
                        (st.currentMood :> Append(st.moodTenses[st.currentMood], part))
                          @@ st.moodTenses]
                ELSE st
      \* the loop over moods: formattedMoods after the first k moods
      RECURSIVE Formatted(_, _)
      Formatted(moodTenses, k) ==
        IF k = 0 THEN << >>
        ELSE IF moods[k] \in DOMAIN moodTenses
        THEN Append(Formatted(moodTenses, k - 1),
                    moods[k] \o <<" ">> \o JoinWith(moodTenses[moods[k]], <<" ","o","r"," ">>))
        ELSE Formatted(moodTenses, k - 1)
      tenseDesc == JoinWith(Formatted(Grouped(Len(parts)).moodTenses, Len(moods)),
                            <<";"," ">>)
  IN IF ~Truthy(tenses) THEN << >>
     ELSE IF personNumber # << >> THEN tenseDesc \o <<","," ">> \o personNumber
     ELSE tenseDesc

\* formatTenseInfo of up to MaxTags tags (moods as the conjugation resource
\* writes them, a capitalised mood, and tenses) and of full forms with and
\* without a pronoun
CallFormatTenseInfo ==
  \E tags \in UNION { [1..n -> {<<"i","n","d","i","c","a","t","i","v","e">>, <<"I","n","d","i",
        "c","a","t","i","v","e">>, <<"s","u","b","j","u","n","c","t","i","v","e">>,
                                <<"p","r","e","s","e","n","t">>, <<"i","m","p","e","r","f","e",
                                      "c","t">>}] :
                      n \in 1..MaxTags },
     fullForm \in {NullStr, <<"n","o","u","s"," ","p","a","r","l","o","n","s">>, <<"p","a","r",
           "l","e">>, <<"q","u","'","i","l"," ","p","a","r","l","e">>, <<"q","u","e"," "," ",
                 "n","o","u","s"," ","p","a","r","l","i","o","n","s">>} :
    /\ call = Idle
    /\ UNCHANGED dict
    /\ call' = [op |-> "formatTenseInfo", tags |-> tags, fullForm |-> fullForm,
                val |-> formatTenseInfo(JoinWith(tags, <<";">>), fullForm),
                threw |-> FALSE]

NextFunctions ==
  \/ CallParseEntry
  \/ CallGetSearchTerm
  \/ CallGetPluralCandidates
  \/ CallGetFeminineCandidates
  \/ CallIsValidFeminineTransformation
  \/ CallTryRemoveContraction
  \/ CallFormatTenseInfo
  \/ Return

SpecFunctions == Init /\ [][NextFunctions]_vars

(***************************************************************************)
(* Calls in flight.  init, changeLanguage and lookup are async functions:  *)
(* a call runs up to its next pending fetch, and the calls issued          *)
(* meanwhile run in between.  call.tasks lists the calls issued, each with *)
(* the fetch it is suspended on (pc).  The suspension points modelled are  *)
(* the index loads and, in lookup, the conjugation lookup that precedes    *)
(* the read of the exact entry; the multi-word stage and the plural and    *)
(* feminine heuristics run in one step.                                    *)
(***************************************************************************)
MaxCalls == 3

MaxChangeLanguage == 2

MaxLookup == 1

\* the calls issued so far, in the order they were issued
Tasks == IF call.op = "tasks" THEN call.tasks ELSE << >>

\* the language whose index resource the cache holds
IndexLanguage(cache) ==
  IF \E l \in Languages : cache = IdxFile(l)
  THEN CHOOSE l \in Languages : cache = IdxFile(l)
  ELSE "none"

\* a call of fn is issued and runs up to pc; alone: no call issued before it is
\* still in flight, prev: where the call issued last before it stands, path:
\* the language in the index path of the loadIndex it started.  loadsOk: none
\* of its index loads has failed; stage: the stage of lookup that ended it
Issued(fn, arg, pc, path) ==
  [fn |-> fn, arg |-> arg, pc |-> pc, path |-> path,
   alone |-> \A i \in 1..Len(Tasks) : Tasks[i].pc = "done",
   prev |-> IF Tasks = << >> THEN "none" ELSE Tasks[Len(Tasks)].pc,
   loadsOk |-> TRUE, indexEntry |-> Null, origin |-> "none", reads |-> << >>,
   stage |-> "none", val |-> Null, threw |-> FALSE]

\* the ranged reads of a log, each with the language of the index its offset
\* was taken from: origin for the read of the exact entry, else the index in
\* the cache
ReadsOf(log, cache, origin) ==
  [i \in 1..Len(log) |->
     [site |-> log[i].site, resource |-> log[i].resource,
      offset |-> log[i].offset, length |-> log[i].length,
      index |-> IF log[i].resource \in {"fra", "backup"} THEN log[i].resource
                ELSE IF log[i].site = "exact" /\ origin # "none" THEN origin
                ELSE IndexLanguage(cache)]]

\* lookup, from the second test of indexLoaded to the conjugation lookup
Searched(this, task) ==
  LET normalizedWord == normalizeWord(task.arg.word)
      Ends(r, threw, stage) ==
        [task EXCEPT !.pc = "done", !.val = r.val, !.threw = threw,
                     !.stage = stage,
                     !.reads = ReadsOf(r.io.log, this.indexCache, "none")]
      \* found is the result of the plural and feminine heuristics
      AfterHeuristicsOf(indexEntry, found) ==
        IF found.val # Null THEN Ends(found, FALSE, "heuristics")
        ELSE [task EXCEPT !.pc = "conjugation", !.indexEntry = indexEntry,
                          !.origin = IndexLanguage(this.indexCache),
                          !.reads = ReadsOf(found.io.log, this.indexCache, "none")]
      FromExact(io, indexEntry) ==
        AfterHeuristicsOf(indexEntry, Heuristics(this, normalizedWord, io, indexEntry))
      \* multi is the result of the multi-word stage
      AfterMulti(multi) ==
        IF multi.threw THEN Ends(multi, TRUE, "multiWord")
        ELSE IF multi.val # Null THEN Ends(multi, FALSE, "multiWord")
        ELSE FromExact(multi.io, binarySearch(this, normalizedWord))
  IN IF ~this.indexLoaded THEN [task EXCEPT !.pc = "done", !.stage = "indexLoaded"]
     ELSE AfterMulti(MultiWord(this, normalizedWord, task.arg.followingText,
                               NewIO({}, TRUE)))

\* init(language), the first call of the dictionary, up to the fetch of
\* loadIndex
StartInit ==
  \E language \in Languages \cup {""} :
    /\ call = Idle
    /\ Becomes([This EXCEPT !.currentLanguage =
                              IF language = "" THEN "eng" ELSE language])
    /\ call' = [op |-> "tasks", threw |-> FALSE,
                tasks |-> Append(Tasks,
                            Issued("init", language, "loadIndex",
                                   IF language = "" THEN "eng" ELSE language))]

\* changeLanguage(language), up to the fetch of loadIndex
StartChangeLanguage ==
  \E language \in Languages :
    /\ Len(Tasks) < MaxCalls
    /\ Cardinality({i \in 1..Len(Tasks) : Tasks[i].fn = "changeLanguage"})
         < MaxChangeLanguage
    /\ IF language # currentLanguage
       THEN /\ Becomes([This EXCEPT !.currentLanguage = language,
                                    !.indexCache = NullCache,
                                    !.indexLoaded = FALSE])
            /\ call' = [op |-> "tasks", threw |-> FALSE,
                        tasks |-> Append(Tasks,
                                    Issued("changeLanguage", language,
                                           "loadIndex", language))]
       ELSE /\ UNCHANGED dict
            /\ call' = [op |-> "tasks", threw |-> FALSE,
                        tasks |-> Append(Tasks,
                                    Issued("changeLanguage", language,
                                           "done", "none"))]

\* lookup(word, followingText), up to the fetch of loadIndex when the index is
\* not loaded, else up to the conjugation lookup
StartLookup ==
  \E q \in {Q(Words.lis, <<>>), Q(Words.pomme, Following.de_terre_rouge)} :
    /\ Len(Tasks) < MaxCalls
    /\ Cardinality({i \in 1..Len(Tasks) : Tasks[i].fn = "lookup"}) < MaxLookup
    /\ UNCHANGED dict
    /\ call' = [op |-> "tasks", threw |-> FALSE,
                tasks |-> Append(Tasks,
                            IF ~indexLoaded
                            THEN Issued("lookup", q, "loadIndex", currentLanguage)
                            ELSE Searched(This, Issued("lookup", q, "start", "none")))]

\* the fetch of a loadIndex ends, well or not, and the call that started it
\* runs on up to its next fetch
LoadIndexDone ==
  \E k \in 1..Len(Tasks), ok \in BOOLEAN :
    LET \* the dictionary after loadIndex with the index path it started with
        loaded == [loadIndex([This EXCEPT !.currentLanguage = Tasks[k].path], ok)
                     EXCEPT !.currentLanguage = currentLanguage]
        Continues(this, task) ==
          /\ Becomes(this)
          /\ call' = [call EXCEPT !.tasks[k] = task]
    IN /\ Tasks[k].pc = "loadIndex"
       /\ CASE Tasks[k].fn = "init" ->
                 Continues(loaded, [Tasks[k] EXCEPT !.pc = "loadConjugationIndex",
                                                   !.loadsOk = ok])
            [] Tasks[k].fn = "changeLanguage" ->
                 IF Tasks[k].arg # "eng"
                 THEN Continues(loaded,
                        [Tasks[k] EXCEPT !.pc = IF ~loaded.backupIndexLoaded
                                                THEN "loadBackupIndex" ELSE "done",
                                         !.loadsOk = ok])
                 ELSE Continues([loaded EXCEPT !.backupIndexCache = NullCache,
                                               !.backupIndexLoaded = FALSE],
                                [Tasks[k] EXCEPT !.pc = "done", !.loadsOk = ok])
            [] Tasks[k].fn = "lookup" ->
                 Continues(loaded, Searched(loaded, [Tasks[k] EXCEPT !.loadsOk = ok]))

\* init: the fetch of loadConjugationIndex ends
LoadConjugationIndexDone ==
  \E k \in 1..Len(Tasks), ok \in BOOLEAN :
    /\ Tasks[k].pc = "loadConjugationIndex"
    /\ Becomes(loadConjugationIndex(This, ok))
    /\ call' = [call EXCEPT !.tasks[k].pc =
                                 IF currentLanguage # "eng" THEN "loadBackupIndex"
                                 ELSE "done",
                             !.tasks[k].loadsOk = @ /\ ok]

\* init, changeLanguage: the fetch of loadBackupIndex ends
LoadBackupIndexDone ==
  \E k \in 1..Len(Tasks), ok \in BOOLEAN :
    /\ Tasks[k].pc = "loadBackupIndex"
    /\ Becomes(loadBackupIndex(This, ok))
    /\ call' = [call EXCEPT !.tasks[k].pc = "done", !.tasks[k].loadsOk = @ /\ ok]

\* lookup: the conjugation lookup ends and the lookup runs to its end, reading
\* the exact entry found before it
ConjugationDone ==
  \E k \in 1..Len(Tasks) :
    LET Ends(r) ==
          call' = [call EXCEPT !.tasks[k] =
                     [Tasks[k] EXCEPT !.pc = "done", !.val = r.val,
                                      !.threw = r.threw, !.stage = "end",
                                      !.reads = @ \o ReadsOf(r.io.log, indexCache,
                                                             IF Tasks[k].indexEntry # Null
                                                             THEN Tasks[k].origin
                                                             ELSE "none")]]
    IN /\ Tasks[k].pc = "conjugation"
       /\ UNCHANGED dict
       /\ Ends(FromConjugation(This, normalizeWord(Tasks[k].arg.word),
                               Tasks[k].arg.followingText, Tasks[k].indexEntry,
                               lookupConjugationWithHeuristics(
                                 This, normalizeWord(Tasks[k].arg.word),
                                 NewIO({}, TRUE))))

NextAsync ==
  \/ StartInit
  \/ StartChangeLanguage
  \/ StartLookup
  \/ LoadIndexDone
  \/ LoadConjugationIndexDone
  \/ LoadBackupIndexDone
  \/ ConjugationDone

SpecAsync == Init /\ [][NextAsync]_vars

(***************************************************************************)
(* Index loads                                                             *)
(***************************************************************************)
\* C11: a failed load of the primary, conjugation or backup index leaves the
\* corresponding loaded flag false and a successful one leaves it true (the
\* boolean the loader returns is the flag it has just written); a lookup or
\* lookupAll that ends with the primary index unloaded (it was unloaded and the
\* reload failed) returns not found, null for lookup and the empty sequence for
\* lookupAll, without a ranged read and without an exception, whatever the
\* index cache holds.
C11_UnloadedNotFound ==
  /\ \A ok \in BOOLEAN :
       /\ loadIndex(This, ok).indexLoaded = ok
       /\ loadConjugationIndex(This, ok).conjugationIndexLoaded = ok
       /\ loadBackupIndex(This, ok).backupIndexLoaded = ok
  /\ (call.op \in {"lookup", "lookupAll"} /\ ~indexLoaded) =>
       /\ call.val = (IF call.op = "lookup" THEN Null ELSE <<>>)
       /\ call.log = <<>>
       /\ ~call.threw

\* a lookup of a word that the index cache left by an earlier load still holds,
\* made while the index is unloaded and the reload fails
C11_Witness ==
  /\ call.op = "lookup"
  /\ ~indexLoaded
  /\ indexCache # NullCache
  /\ binarySearch(This, call.word) # Null
  /\ call.val = Null

\* C12: a changeLanguage call never changes the conjugation index cache or its
\* loaded flag, and a changeLanguage call with the current language changes no
\* field of the dictionary, whatever the outcome a load would have had (no load
\* is started).
C12_ChangeLanguageFrame ==
  [][(call = Idle /\ call'.op = "changeLanguage") =>
       /\ conjugationIndexCache' = conjugationIndexCache
       /\ conjugationIndexLoaded' = conjugationIndexLoaded
       /\ (call'.language = currentLanguage => UNCHANGED dict)]_vars

\* changeLanguage to the current language on a dictionary whose index is
\* unloaded with the cache of an earlier load still in place: a changeLanguage
\* to another language would have cleared the cache
C12_Witness ==
  /\ call.op = "changeLanguage"
  /\ call.language = currentLanguage
  /\ ~indexLoaded
  /\ indexCache # NullCache
  /\ conjugationIndexLoaded

\* C13: along one init followed by changeLanguage calls whose loads all
\* succeed, the backup index is loaded exactly when the current language is not
\* 'eng'; it becomes loaded only by an init or changeLanguage to a non-English
\* language, a changeLanguage to a non-English language keeps a loaded backup
\* index without reloading it (it stays loaded even if a load would fail), and
\* it becomes unloaded only by a changeLanguage to 'eng'.
C13_BackupIffNotEnglish ==
  /\ [](backupIndexLoaded <=> currentLanguage # "eng")
  /\ [](backupIndexLoaded =>
          \A L \in Languages \ {"eng"} :
            /\ changeLanguage(This, L, TRUE, FALSE).backupIndexLoaded
            /\ changeLanguage(This, L, TRUE, FALSE).backupIndexCache = backupIndexCache)
  /\ [][/\ (~backupIndexLoaded /\ backupIndexLoaded') =>
             (call'.op \in {"init", "changeLanguage"} /\ call'.language \notin {"eng", ""})
        /\ (backupIndexLoaded /\ ~backupIndexLoaded') =>
             (call'.op = "changeLanguage" /\ call'.language = "eng")]_vars

\* after a changeLanguage to English that unloaded the backup index: the index
\* of the earlier language is gone and the English one is loaded
C13_Witness ==
  /\ call.op = "changeLanguage"
  /\ call.language = "eng"
  /\ Initialized
  /\ currentLanguage = "eng"
  /\ ~backupIndexLoaded
  /\ backupIndexCache = NullCache

(***************************************************************************)
(* Repeated lookups                                                        *)
(***************************************************************************)
\* the reads of a call that failed, as the positions of the failed reads
FailedReads(log) == { i \in 1..Len(log) : log[i].failed }

C15_EscapeRoundTrip ==
  call.op = "parseEntry" =>
    call.val = [headword |-> call.fields[1], pos |-> call.fields[2],
                gender |-> call.fields[3], pronunciation |-> call.fields[4],
                translations |-> call.fields[5], definition |-> call.fields[6]]

(***************************************************************************)
(* Acronyms                                                                *)
(***************************************************************************)
\* C16: a lookup or lookupAll of an acronym never reads an entry of the primary
\* index whose headword begins with the lowercased acronym: every search of the
\* primary index is made with the term getSearchTerm gives, which keeps the
\* case of an acronym ("EST" never reaches "est" or "est sud").
C16_AcronymKeepsCase ==
  (call.op \in {"lookup", "lookupAll"} /\ indexLoaded /\ isAcronym(Word)) =>
    \A i \in 1..Len(call.log) : \A k \in 1..Len(indexCache) :
      (/\ call.log[i].resource = currentLanguage
       /\ call.log[i].offset = indexCache[k].offset
       /\ call.log[i].length = indexCache[k].length)
      => Tokens(indexCache[k].headword)[1] # toLowerCase(Word)

\* a non-empty sequence of uppercase letters
UppercaseLetters(w) == Len(w) > 0 /\ \A i \in 1..Len(w) : IsUpper(w[i])

\* C17: isAcronym is true exactly for a word of more than one character made of
\* uppercase letters only, and for a contraction prefix (qu’, l’, d’, c’, j’, m’,
\* t’, n’, s’) immediately followed by a sequence of uppercase letters;
\* getSearchTerm returns an acronym unchanged and any other word lowercased.
C17_AcronymExactly ==
  call.op = "getSearchTerm" =>
    /\ call.acronym <=>
         \/ Len(call.word) > 1 /\ UppercaseLetters(call.word)
         \/ \E i \in 1..Len(contractions) :
              /\ startsWith(call.word, contractions[i])
              /\ UppercaseLetters(DropFirst(call.word, Len(contractions[i])))
    /\ call.val = IF call.acronym THEN call.word ELSE toLowerCase(call.word)

(***************************************************************************)
(* Singular and masculine candidates                                       *)
(***************************************************************************)
\* word with its ending replaced, when it has that ending
Replaced(word, ending, by) ==
  IF endsWith(word, ending)
  THEN <<SubSeq(word, 1, Len(word) - Len(ending)) \o by>>
  ELSE <<>>

\* C18: getPluralCandidates returns nothing for a word of fewer than 3
\* characters, and for a longer word the candidates of every rule that fires,
\* in the order -eaux to -eau; -aux to -al, -au, -ail; -eux to -eu unless the
\* word ends in -ieux; -oux to -ou; a trailing s stripped. For "chevaux" they
\* are "cheval", "chevau", "chevail".
C18_PluralCandidatesInOrder ==
  call.op = "getPluralCandidates" =>
    LET word == call.word
    IN /\ Len(word) < 3 => call.val = <<>>
       /\ Len(word) >= 3 =>
            call.val =
              Replaced(word, <<"e","a","u","x">>, <<"e","a","u">>)
              \o Replaced(word, <<"a","u","x">>, <<"a","l">>)
              \o Replaced(word, <<"a","u","x">>, <<"a","u">>)
              \o Replaced(word, <<"a","u","x">>, <<"a","i","l">>)
              \o (IF endsWith(word, <<"i","e","u","x">>) THEN <<>>
                  ELSE Replaced(word, <<"e","u","x">>, <<"e","u">>))
              \o Replaced(word, <<"o","u","x">>, <<"o","u">>)
              \o Replaced(word, <<"s">>, <<>>)
       /\ word = <<"c","h","e","v","a","u","x">> =>
            call.val = << <<"c","h","e","v","a","l">>, <<"c","h","e","v","a","u">>,
                          <<"c","h","e","v","a","i","l">> >>

\* a word in -eaux, for which two rules fire
C18_Witness ==
  /\ call.op = "getPluralCandidates"
  /\ endsWith(call.word, <<"e","a","u","x">>)
  /\ Len(call.val) = 4
  /\ call.val[1] = DropLast(call.word, 1)

\* the feminine endings in the order of their test, each with the masculine
\* endings that replace it
FeminineEndings ==
  << [ending |-> <<"i","e","n","n","e">>, by |-> << <<"i","e","n">> >>],
     [ending |-> <<"t","e","u","s","e">>, by |-> << <<"t","e","u","r">> >>],
     [ending |-> <<"e","u","s","e">>, by |-> << <<"e","u","x">> >>],
     [ending |-> <<"r","i","c","e">>, by |-> << <<"t","e","u","r">>, <<"e","u","r">> >>],
     [ending |-> <<"e_grave","r","e">>, by |-> << <<"e","r">> >>],
     [ending |-> <<"e","l","l","e">>, by |-> << <<"e","l">> >>],
     [ending |-> <<"e","n","n","e">>, by |-> << <<"e","n">> >>],
     [ending |-> <<"o","n","n","e">>, by |-> << <<"o","n">> >>],
     [ending |-> <<"i","n","n","e">>, by |-> << <<"i","n">> >>],
     [ending |-> <<"e","t","t","e">>, by |-> << <<"e","t">> >>],
     [ending |-> <<"v","e">>, by |-> << <<"f">> >>],
     [ending |-> <<"s","e">>, by |-> << <<"x">> >>],
     [ending |-> <<"q","u","e">>, by |-> << <<"c">> >>],
     [ending |-> <<"c","h","e">>, by |-> << <<"c">> >>],
     [ending |-> <<"g","u","e">>, by |-> << <<"g">> >>],
     [ending |-> <<"e">>, by |-> << <<>> >>] >>

\* the positions of the endings the word has
EndingsOf(word) ==
  {i \in 1..Len(FeminineEndings) : endsWith(word, FeminineEndings[i].ending)}

\* C19: getFeminineCandidates returns nothing for a word that does not end in e
\* or has fewer than 3 characters; otherwise only the first ending the word has,
\* in the order -ienne, -teuse, -euse, -rice, -ère, -elle, -enne, -onne, -inne,
\* -ette, -ve, -se, -que, -che, -gue, contributes: the word with that ending
\* replaced, one candidate, or two for -rice, and the word without its e when it
\* has none of them. "heureuse" gives "heureux" alone.
C19_FirstFemininePattern ==
  call.op = "getFeminineCandidates" =>
    LET word == call.word
        first == CHOOSE i \in EndingsOf(word) : \A j \in EndingsOf(word) : i <= j
    IN /\ (~endsWith(word, <<"e">>) \/ Len(word) < 3) => call.val = <<>>
       /\ (endsWith(word, <<"e">>) /\ Len(word) >= 3) =>
            /\ call.val =
                 [k \in 1..Len(FeminineEndings[first].by) |->
                    DropLast(word, Len(FeminineEndings[first].ending))
                    \o FeminineEndings[first].by[k]]
            /\ Len(call.val) = IF FeminineEndings[first].ending = <<"r","i","c","e">>
                               THEN 2 ELSE 1
       /\ word = <<"h","e","u","r","e","u","s","e">> =>
            call.val = << <<"h","e","u","r","e","u","x">> >>

\* a word in -teuse, which also ends in -euse and in -se
C19_Witness ==
  /\ call.op = "getFeminineCandidates"
  /\ endsWith(call.word, <<"t","e","u","s","e">>)
  /\ call.val = <<DropLast(call.word, 5) \o <<"t","e","u","r">>>>

(***************************************************************************)
(* lookupAll against lookup                                                *)
(***************************************************************************)
\* what lookup returns for the word and following text of the call, in the
\* state the call left, when every read succeeds
LookupOfCall == lookup(This, call.word, call.followingText, NewIO({}, TRUE))

\* the result of a lookup is the bilingual entry of its exact, plural or
\* feminine stage: not a multi-word, conjugation or contraction result
FromBilingualStage(r) ==
  /\ ~r.threw
  /\ r.val # Null
  /\ ~HasField(r.val, "matchedWords")
  /\ ~HasField(r.val, "conjugationInfo")
  /\ ~HasField(r.val, "contractionPrefix")
  /\ \E i \in 1..Len(r.io.log) :
       /\ r.io.log[i].site \in {"exact", "plural", "pluralFeminine", "feminine"}
       /\ r.io.log[i].val # Null
       /\ r.io.log[i].val.headword = r.val.headword

\* the two entries are annotated the same way
SameAnnotation(e1, e2) ==
  /\ e1.gender = e2.gender
  /\ HasField(e1, "inflectionNote") = HasField(e2, "inflectionNote")
  /\ HasField(e1, "inflectionNote") => e1.inflectionNote = e2.inflectionNote
  /\ HasField(e1, "searchedForm") = HasField(e2, "searchedForm")
  /\ HasField(e1, "searchedForm") => e1.searchedForm = e2.searchedForm

\* C20: when lookup resolves the word to the bilingual entry of its exact,
\* plural (the masculine of a plural candidate included) or feminine stage,
\* lookupAll of the same word in the same state returns a sequence holding an
\* entry with the same headword and part of speech, annotated as lookup
\* annotates it (gender 'f' and the note 'feminine of <base>' for a feminine
\* form).
C20_LookupAllCoversLookup ==
  (Completed("lookupAll") /\ FromBilingualStage(LookupOfCall)) =>
    \E i \in 1..Len(call.val) :
      /\ call.val[i].headword = LookupOfCall.val.headword
      /\ call.val[i].pos = LookupOfCall.val.pos
      /\ SameAnnotation(call.val[i], LookupOfCall.val)

(***************************************************************************)
(* Multi-word matching                                                     *)
(***************************************************************************)
\* a token up to letter case and apostrophe form
Folded(token) == toLowerCase(curlyApostrophes(NFC(token)))

\* C22: for a word that is not an acronym, when the index holds a multi-word
\* headword that starts with the normalized word and whose other tokens equal
\* the leading tokens of the following text up to letter case and apostrophe
\* form, lookup returns a multi-word entry (matchedWords of at least 2).
C22_MultiWordFoldsCase ==
  (/\ Completed("lookup")
   /\ ~isAcronym(Word)
   /\ \E i \in 1..Len(indexCache) :
        LET hw == Tokens(indexCache[i].headword)
            following == Tokens(call.followingText)
        IN /\ Len(hw) >= 2
           /\ hw[1] = Word
           /\ Len(hw) - 1 <= Len(following)
           /\ \A k \in 2..Len(hw) : Folded(hw[k]) = Folded(following[k - 1]))
  => /\ call.val # Null
     /\ HasField(call.val, "matchedWords")
     /\ call.val.matchedWords >= 2

(***************************************************************************)
(* lookupAll and contractions                                              *)
(***************************************************************************)
\* C23: when the multi-word, exact, plural and feminine stages of lookupAll
\* find nothing for a word with a contraction prefix and lookupAll of the
\* remainder finds entries, every entry lookupAll returns carries
\* contractionPrefix = the stripped prefix and originalSearched = the
\* normalized word.
C23_LookupAllContractionAnnotated ==
  (/\ Completed("lookupAll")
   /\ NoMultiWordHit
   /\ tryRemoveContraction(Word) # Null
   /\ AllCascade(This, Word, NewIO({}, TRUE), FALSE).val = <<>>
   /\ lookupAll(This, tryRemoveContraction(Word).word, call.followingText,
                NewIO({}, TRUE)).val # <<>>)
  => /\ call.val # <<>>
     /\ \A i \in 1..Len(call.val) :
          /\ HasField(call.val[i], "contractionPrefix")
          /\ call.val[i].contractionPrefix = tryRemoveContraction(Word).prefix
          /\ HasField(call.val[i], "originalSearched")
          /\ call.val[i].originalSearched = Word

(***************************************************************************)
(* Feminine validation                                                     *)
(***************************************************************************)
\* a pos or gender that is missing or blank
Absent(field) == ~Truthy(field) \/ trim(field) = <<>>

\* C24: isValidFeminineTransformation accepts only when the pos is noun or
\* adjective and the gender masculine, or when pos and gender are both absent;
\* what it accepts is a feminine form in e that pairs with the masculine form
\* by one of the suffix pairs of the candidate table or is the masculine form
\* plus e. An entry with a pos that is neither noun nor adjective (a verb
\* without gender) is never accepted.
C24_FeminineOnlyNounAdjective ==
  (call.op = "isValidFeminineTransformation" /\ call.val) =>
    /\ \/ /\ trim(toLowerCase(call.pos)) \in {<<"n">>, <<"a","d","j">>}
          /\ trim(toLowerCase(call.gender)) = <<"m">>
       \/ Absent(call.pos) /\ Absent(call.gender)
    /\ endsWith(call.word, <<"e">>)
    /\ \/ \E i \in 1..(Len(FeminineEndings) - 1) :
            \E k \in 1..Len(FeminineEndings[i].by) :
              /\ endsWith(call.word, FeminineEndings[i].ending)
              /\ endsWith(call.masculineForm, FeminineEndings[i].by[k])
       \/ DropLast(call.word, 1) = call.masculineForm

(***************************************************************************)
(* Contractions                                                            *)
(***************************************************************************)
\* the contraction prefixes stacked at the head of a word
RECURSIVE StackedPrefixes(_)
StackedPrefixes(w) ==
  IF \E i \in 1..Len(contractions) : startsWith(w, contractions[i])
  THEN LET i == CHOOSE i \in 1..Len(contractions) : startsWith(w, contractions[i])
       IN 1 + StackedPrefixes(DropFirst(w, Len(contractions[i])))
  ELSE 0

\* the nested calls the contraction fallback makes for a word: one for each
\* remainder it strips and looks up in turn
RECURSIVE NestedRecursions(_)
NestedRecursions(w) ==
  IF tryRemoveContraction(w) = Null THEN 0
  ELSE 1 + NestedRecursions(normalizeWord(tryRemoveContraction(w).word))

\* C25: tryRemoveContraction strips only from a word of at least 3 characters
\* that starts with a contraction prefix; the prefix and the remainder it
\* returns make up the word and the remainder is strictly shorter, so the
\* contraction fallback nests at most once for each stacked prefix and the
\* conjugation lookup that recurses on the remainder completes.
C25_ContractionRecursionEnds ==
  call.op = "tryRemoveContraction" =>
    /\ call.val # Null =>
         /\ Len(call.word) >= 3
         /\ \E i \in 1..Len(contractions) :
              /\ call.val.prefix = contractions[i]
              /\ startsWith(call.word, contractions[i])
         /\ call.val.prefix \o call.val.word = call.word
         /\ Len(call.val.word) < Len(call.word)
    /\ NestedRecursions(call.word) <= StackedPrefixes(call.word)
    /\ call.conjugation = Null

\* two stacked prefixes: the fallback strips the first and nests twice
C25_Witness ==
  /\ call.op = "tryRemoveContraction"
  /\ call.val # Null
  /\ tryRemoveContraction(call.val.word) # Null
  /\ NestedRecursions(call.word) = 2

\* the tags of the completed formatTenseInfo call that name a mood, whatever
\* their case
MoodTags ==
  {i \in 1..Len(call.tags) :
     toLowerCase(call.tags[i]) \in {<<"i","n","d","i","c","a","t","i","v","e">>, <<"s","u","b","j","u","n","c","t","i","v","e">>}}

\* C26: formatTenseInfo keeps every tense tag that follows a mood, also when a
\* mood occurs more than once or is capitalised, and "indicative;present" of
\* "nous parlons" reads "indicative present, 1st person plural"
C26_NoTenseTagLost ==
  call.op = "formatTenseInfo" =>
    /\ \A i \in 1..Len(call.tags) :
         (i \notin MoodTags /\ \E j \in MoodTags : j < i)
           => includes(call.val, call.tags[i])
    /\ (call.tags = <<<<"i","n","d","i","c","a","t","i","v","e">>, <<"p","r","e","s","e","n","t">>>> /\ call.fullForm = <<"n","o","u","s"," ","p","a","r","l","o","n","s">>)
         => call.val = <<"i","n","d","i","c","a","t","i","v","e"," ","p","r","e","s","e","n","t",","," ","1","s","t"," ","p","e","r","s","o","n"," ","p","l","u","r","a","l">>

(***************************************************************************)
(* Headwords with several senses                                           *)
(***************************************************************************)
\* what lookupAll returns for the word and following text of the call, in the
\* state the call left, when every read succeeds
LookupAllOfCall == lookupAll(This, call.word, call.followingText, NewIO({}, TRUE)).val

\* C27: when the headword of a lookup has several consecutive index rows, the
\* exact-match stage reads the first of them in index order, and the entry
\* returned is the first element of what lookupAll returns for the word
C27_ExactReturnsFirstSense ==
  (Completed("lookup") /\ Len(RowsOf(Word)) >= 2 /\ ReadsAt("exact") # <<>>
     /\ NoMultiWordHit) =>
    /\ ReadsAt("exact")[1].offset = RowsOf(Word)[1].offset
    /\ LookupAllOfCall # <<>>
    /\ call.val.headword = LookupAllOfCall[1].headword
    /\ call.val.pos = LookupAllOfCall[1].pos
    /\ call.val.translations = LookupAllOfCall[1].translations

(***************************************************************************)
(* Contracted words and the backup dictionary                              *)
(***************************************************************************)
\* the rows of the backup index under the search term of a headword
BackupRowsOf(headword) ==
  LET IsRow(row) == row.headword = getSearchTerm(headword)
  IN SelectSeq(backupIndexCache, IsRow)

\* the lookupAll of the call is of a contracted word that the stages on the
\* primary index do not find, neither whole nor stripped, while the backup index
\* holds the stripped remainder
ContractedBackupCase ==
  /\ Completed("lookupAll")
  /\ currentLanguage # "eng"
  /\ backupIndexLoaded
  /\ NoMultiWordHit
  /\ tryRemoveContraction(Word) # Null
  /\ AllCascade(This, Word, NewIO({}, TRUE), FALSE).val = <<>>
  /\ AllCascade(This, tryRemoveContraction(Word).word, NewIO({}, TRUE), FALSE).val = <<>>
  /\ BackupRowsOf(tryRemoveContraction(Word).word) # <<>>

\* C30: in that case lookupAll returns the backup entries of the remainder,
\* marked as backup entries, and reads no row of the backup index under the whole
\* contracted word, also when the whole word is a backup headword
C30_RemainderBackupBeforeFullWord ==
  ContractedBackupCase =>
    /\ call.val # <<>>
    /\ \A k \in 1..Len(call.val) :
         /\ call.val[k].headword = tryRemoveContraction(Word).word
         /\ call.val[k].isBackup = TRUE
    /\ \A i \in BackupReads :
         \A k \in 1..Len(BackupRowsOf(Word)) :
           call.log[i].offset # BackupRowsOf(Word)[k].offset

\* a contracted word that is itself a backup headword came back as its remainder
C30_Witness ==
  /\ ContractedBackupCase
  /\ BackupRowsOf(Word) # <<>>
  /\ BackupReads # {}

(***************************************************************************)
(* Calls in flight                                                         *)
(***************************************************************************)
\* C28: whatever the interleaving of init, changeLanguage, the ends of the index
\* loads (well or not) and lookups, a loaded flag that is set comes with a cache
\* that is not null, for the primary and for the backup index, and no lookup
\* ends with the exception of lookupMultiWord reading a null indexCache
C28_LoadedImpliesCache ==
  /\ indexLoaded => indexCache # NullCache
  /\ backupIndexLoaded => backupIndexCache # NullCache
  /\ \A k \in 1..Len(Tasks) :
       Tasks[k].fn = "lookup" => ~(Tasks[k].threw /\ Tasks[k].stage = "multiWord")

\* a lookup issued while a changeLanguage was in flight went through
\* lookupMultiWord and found its expression
C28_Witness ==
  \E k \in 1..Len(Tasks) :
    /\ Tasks[k].fn = "lookup"
    /\ ~Tasks[k].alone
    /\ \E i \in 1..(k - 1) : Tasks[i].fn = "changeLanguage"
    /\ Tasks[k].stage = "multiWord"
    /\ Tasks[k].val # Null
    /\ indexLoaded

\* the last two calls issued are changeLanguage calls with different codes, the
\* second issued while the first was suspended in its index load and nothing
\* else was in flight; both have ended and none of their loads failed
TwoChangesOverlapped ==
  /\ Len(Tasks) >= 2
  /\ LET first == Tasks[Len(Tasks) - 1]
         second == Tasks[Len(Tasks)]
     IN /\ first.fn = "changeLanguage" /\ second.fn = "changeLanguage"
        /\ first.arg # second.arg
        /\ first.alone
        /\ second.prev = "loadIndex"
        /\ first.pc = "done" /\ second.pc = "done"
        /\ first.loadsOk /\ second.loadsOk

\* C29: once two overlapping changeLanguage calls with different codes have both
\* ended, currentLanguage is the code of the second, indexCache holds the index
\* of currentLanguage, and the backup index is loaded exactly when
\* currentLanguage is not 'eng'
C29_LastLanguageWins ==
  TwoChangesOverlapped =>
    /\ currentLanguage = Tasks[Len(Tasks)].arg
    /\ indexCache = IdxFile(currentLanguage)
    /\ backupIndexLoaded <=> currentLanguage # "eng"

\* the call at position k was issued with no call in flight, and no call was
\* issued before it ended
Serialized(k) ==
  /\ Tasks[k].alone
  /\ \A m \in (k + 1)..Len(Tasks) : Tasks[m].alone

\* C21: every ranged read of a lookup that overlaps no other call takes its
\* offset from the index of the language of the bulk resource it reads
C21_SerializedReadsMatch ==
  \A k \in 1..Len(Tasks) :
    (Tasks[k].fn = "lookup" /\ Serialized(k)) =>
      \A i \in 1..Len(Tasks[k].reads) :
        Tasks[k].reads[i].index = Tasks[k].reads[i].resource

====
